---------------------------- MODULE Spec2Model ----------------------------
(***************************************************************************)
(* gptcli: the incremental source index (scan / index) and the target      *)
(* resolver of `explain`.                                                  *)
(*                                                                         *)
(* Encodings used throughout:                                              *)
(*   - an Option<T> is a sequence of length 0 (None / SQL NULL) or 1;      *)
(*   - file contents, texts and digests are sequences of byte values;      *)
(*   - names, scopes and symbols are sequences of tokens, a word being one *)
(*     token and each ':' one token, so "Worker::run" is                   *)
(*     <<"Worker", ":", ":", "run">>;                                      *)
(*   - a table is the set of its rows, each row a record with its rowid.   *)
(***************************************************************************)
EXTENDS Integers, Sequences, FiniteSets, TLC

VARIABLES
    fs,         \* the source tree: path -> [present, readable, bytes, mtime]
    namespace,  \* .gptcli/state.json: ProjectState.namespace
    files,      \* table files
    tags,       \* table tags
    chunks,     \* table chunks
    fts,        \* virtual table fts_chunks (rowid, text)
    clock,      \* wall clock, seconds
    edits,      \* number of changes made to the source tree
    hist,       \* history: the runs since the source tree last changed
    res,        \* outcome of the last resolve_target call
    rtext,      \* outcome of the last read_text_sanitized call
    facts,      \* the sections explain::run assembled for the resolved Target
    tx          \* the open transaction of an index run: its uncommitted writes

vars == <<fs, namespace, files, tags, chunks, fts, clock, edits, hist, res, rtext, facts, tx>>

store == <<files, tags, chunks, fts>>

(***************************************************************************)
(* Bounds of the model.                                                    *)
(***************************************************************************)
MaxClock == 5

MaxEdits == 2

HistLen == 3

\* Runs of scan and index before the resolver is queried.
ResolveRuns == 2

(***************************************************************************)
(* Option, sequences, small helpers.                                       *)
(***************************************************************************)
None == <<>>

Some(x) == <<x>>

IsSome(o) == Len(o) = 1

Unwrap(o) == o[1]

UnwrapOr(o, d) == IF Len(o) = 1 THEN o[1] ELSE d

MaxOf(a, b) == IF a >= b THEN a ELSE b

MinOf(a, b) == IF a <= b THEN a ELSE b

SetMax(S) == CHOOSE x \in S : \A y \in S : y <= x

SetMin(S) == CHOOSE x \in S : \A y \in S : x <= y

Last(s) == s[Len(s)]

RECURSIVE Concat(_)
Concat(ss) == IF ss = <<>> THEN <<>> ELSE Head(ss) \o Concat(Tail(ss))

RECURSIVE SelectSeqP(_, _, _)
SelectSeqP(s, S, i) ==
    IF i > Len(s) THEN <<>>
    ELSE (IF s[i] \in S THEN <<s[i]>> ELSE <<>>) \o SelectSeqP(s, S, i + 1)

(***************************************************************************)
(* Bytes and text.                                                         *)
(***************************************************************************)
LF == 10

CR == 13

TAB == 9

QMARK == 63

\* std::str::from_utf8: length of the well-formed UTF-8 sequence that starts
\* at bytes[i], or 0 when there is none.
Cont(bytes, i, lo, hi) == i <= Len(bytes) /\ bytes[i] >= lo /\ bytes[i] <= hi

Utf8SeqLen(bytes, i) ==
    LET b == bytes[i] IN
    IF b <= 127 THEN 1
    ELSE IF b >= 194 /\ b <= 223 THEN
        (IF Cont(bytes, i + 1, 128, 191) THEN 2 ELSE 0)
    ELSE IF b = 224 THEN
        (IF Cont(bytes, i + 1, 160, 191) /\ Cont(bytes, i + 2, 128, 191) THEN 3 ELSE 0)
    ELSE IF (b >= 225 /\ b <= 236) \/ b = 238 \/ b = 239 THEN
        (IF Cont(bytes, i + 1, 128, 191) /\ Cont(bytes, i + 2, 128, 191) THEN 3 ELSE 0)
    ELSE IF b = 237 THEN
        (IF Cont(bytes, i + 1, 128, 159) /\ Cont(bytes, i + 2, 128, 191) THEN 3 ELSE 0)
    ELSE IF b = 240 THEN
        (IF Cont(bytes, i + 1, 144, 191) /\ Cont(bytes, i + 2, 128, 191)
            /\ Cont(bytes, i + 3, 128, 191) THEN 4 ELSE 0)
    ELSE IF b >= 241 /\ b <= 243 THEN
        (IF Cont(bytes, i + 1, 128, 191) /\ Cont(bytes, i + 2, 128, 191)
            /\ Cont(bytes, i + 3, 128, 191) THEN 4 ELSE 0)
    ELSE IF b = 244 THEN
        (IF Cont(bytes, i + 1, 128, 143) /\ Cont(bytes, i + 2, 128, 191)
            /\ Cont(bytes, i + 3, 128, 191) THEN 4 ELSE 0)
    ELSE 0

RECURSIVE IsUtf8From(_, _)
IsUtf8From(bytes, i) ==
    IF i > Len(bytes) THEN TRUE
    ELSE LET n == Utf8SeqLen(bytes, i) IN
         IF n = 0 THEN FALSE ELSE IsUtf8From(bytes, i + n)

IsUtf8(bytes) == IsUtf8From(bytes, 1)

\* sanitize_non_utf8_runs: the loop over the bytes, with its flag.
RECURSIVE SanitizeFrom(_, _, _)
SanitizeFrom(bytes, i, in_non_ascii) ==
    IF i > Len(bytes) THEN (IF in_non_ascii THEN <<QMARK, QMARK, QMARK>> ELSE <<>>)
    ELSE LET b == bytes[i] IN
         IF b = LF \/ b = TAB \/ b = CR \/ (b >= 32 /\ b <= 126)
         THEN (IF in_non_ascii THEN <<QMARK, QMARK, QMARK>> ELSE <<>>)
              \o <<b>> \o SanitizeFrom(bytes, i + 1, FALSE)
         ELSE SanitizeFrom(bytes, i + 1, TRUE)

sanitize_non_utf8_runs(bytes) == SanitizeFrom(bytes, 1, FALSE)

\* read_text_sanitized: Err when the file cannot be read, else the text.
read_text_sanitized(f) ==
    IF ~(f.present /\ f.readable) THEN [ok |-> FALSE, text |-> <<>>]
    ELSE IF IsUtf8(f.bytes) THEN [ok |-> TRUE, text |-> f.bytes]
    ELSE [ok |-> TRUE, text |-> sanitize_non_utf8_runs(f.bytes)]

\* str::lines(): pieces ending with '\n' (split_inclusive), the '\n' and a
\* '\r' right before it stripped; a last piece without '\n' is kept whole.
RECURSIVE LinesFrom(_, _, _)
LinesFrom(s, i, cur) ==
    IF i > Len(s) THEN (IF cur = <<>> THEN <<>> ELSE <<cur>>)
    ELSE IF s[i] = LF
         THEN <<(IF cur # <<>> /\ Last(cur) = CR
                 THEN SubSeq(cur, 1, Len(cur) - 1) ELSE cur)>>
              \o LinesFrom(s, i + 1, <<>>)
         ELSE LinesFrom(s, i + 1, Append(cur, s[i]))

Lines(s) == LinesFrom(s, 1, <<>>)

\* index.rs slice_text: lines begin_line..end_line, each followed by '\n'.
RECURSIVE SliceTextFrom(_, _, _, _)
SliceTextFrom(ls, idx, begin_line, end_line) ==
    IF idx > Len(ls) THEN <<>>
    ELSE IF idx < begin_line THEN SliceTextFrom(ls, idx + 1, begin_line, end_line)
    ELSE IF idx > end_line THEN <<>>
    ELSE ls[idx] \o <<LF>> \o SliceTextFrom(ls, idx + 1, begin_line, end_line)

SliceTextOffByOne(full, begin_line, end_line) ==
    SliceTextFrom(Lines(full), 1, begin_line + 1, end_line)

slice_text(full, begin_line, end_line) ==
    SliceTextFrom(Lines(full), 1, begin_line, end_line)

\* explain.rs slice_lines: the reader's copy of the same loop.
RECURSIVE SliceLinesFrom(_, _, _, _)
SliceLinesFrom(ls, idx, begin, end) ==
    IF idx > Len(ls) THEN <<>>
    ELSE IF idx < begin THEN SliceLinesFrom(ls, idx + 1, begin, end)
    ELSE IF idx > end THEN <<>>
    ELSE ls[idx] \o <<LF>> \o SliceLinesFrom(ls, idx + 1, begin, end)

slice_lines(full, begin, end) == SliceLinesFrom(Lines(full), 1, begin, end)

\* SHA-256 rendered as hex: an injective tagging of the input (collision
\* resistance); never the empty string.
sha256_str(s) == <<256>> \o s

sha256_file(f) ==
    IF ~(f.present /\ f.readable) THEN [ok |-> FALSE, sha |-> <<>>]
    ELSE [ok |-> TRUE, sha |-> <<256>> \o f.bytes]


(***************************************************************************)
(* The universe of the model: paths, namespaces, file contents.            *)
(***************************************************************************)
\* Paths in ascending byte order (SQLite's BINARY collation).
PathOrder == <<"a.cpp", "b.cpp">>

Paths == {PathOrder[i] : i \in 1..Len(PathOrder)}

PathRank(p) == CHOOSE i \in 1..Len(PathOrder) : PathOrder[i] = p

Namespaces == {"n1", "n2"}

\* The parts of a path, lower-cased: its directories (none of them holds a
\* dot), its file name without the extension, its extension, whether the
\* file name without the extension ends with "_test", and whether "test"
\* occurs anywhere in the path.
PathParts(p) ==
    IF p = "a.cpp"
    THEN [dirs |-> <<>>, name |-> "a", ext |-> "cpp", test_suffix |-> FALSE,
          has_test |-> FALSE]
    ELSE [dirs |-> <<>>, name |-> "b", ext |-> "cpp", test_suffix |-> FALSE,
          has_test |-> FALSE]

\* "a\nb\nc\n"
TextLf == <<97, 10, 98, 10, 99, 10>>

\* "a\r\nb\nc\nd": CRLF, and no newline after the last line
TextCrlf == <<97, 13, 10, 98, 10, 99, 10, 100>>

\* "a" 0xFF 0xFE "\nb": not UTF-8
TextBin == <<97, 255, 254, 10, 98>>

\* "//c\n#d\nrun(q(\n": a comment, a preprocessor line, two calls
TextCode == <<47, 47, 99, 10, 35, 100, 10, 114, 117, 110, 40, 113, 40, 10>>

\* "x\ny\n": the member function run of a class other than Worker
TextScopes == <<120, 10, 121, 10>>

Contents == {TextLf, TextCrlf, TextBin, <<>>}

NoFile == [present |-> FALSE, readable |-> FALSE, bytes |-> <<>>, mtime |-> 0]

(***************************************************************************)
(* The store: rows, rowids, the fts triggers of create_v1.                 *)
(***************************************************************************)
\* INTEGER PRIMARY KEY without AUTOINCREMENT: one more than the largest rowid.
NextId(rows) == IF rows = {} THEN 1 ELSE SetMax({r.id : r \in rows}) + 1

FileRow(ns, path) == {r \in files : r.namespace = ns /\ r.path = path}

RowOf(fl, id) == CHOOSE r \in fl : r.id = id

\* trigger chunks_ai
InsertChunk(cs, ft, c) ==
    [chunks |-> cs \cup {c}, fts |-> ft \cup {[rowid |-> c.id, text |-> c.text]}]

DeleteChunksKeepFts(cs, ft, file_id) ==
    [chunks |-> {c \in cs : c.file_id # file_id}, fts |-> ft]

\* DELETE FROM chunks WHERE file_id=?1, with trigger chunks_ad
DeleteChunks(cs, ft, file_id) ==
    LET gone == {c \in cs : c.file_id = file_id} IN
    [chunks |-> cs \ gone,
     fts |-> ft \ {[rowid |-> c.id, text |-> c.text] : c \in gone}]

\* UPDATE chunks SET text=?1 WHERE id=?2, with trigger chunks_au
UpdateChunkText(cs, ft, id, text) ==
    LET old == CHOOSE c \in cs : c.id = id IN
    [chunks |-> (cs \ {old}) \cup {[old EXCEPT !.text = text]},
     fts |-> (ft \ {[rowid |-> old.id, text |-> old.text]})
             \cup {[rowid |-> old.id, text |-> text]}]

(***************************************************************************)
(* scan                                                                    *)
(***************************************************************************)
\* guess_lang: by the extension of the lower-cased path.
guess_lang(rel) ==
    LET ext == PathParts(rel).ext IN
    CASE ext = "rs" -> "rust"
      [] ext = "py" -> "python"
      [] ext \in {"ts", "tsx"} -> "ts"
      [] ext \in {"js", "jsx"} -> "js"
      [] ext = "lua" -> "lua"
      [] ext = "c" -> "c"
      [] ext \in {"cc", "cpp", "cxx", "hh", "hpp", "inl", "ipp", "h"} -> "cpp"
      [] OTHER -> "other"

\* classify_doc: docs, manifest, tests or code, by the lower-cased path.
classify_doc(rel) ==
    LET q == PathParts(rel)
        top == q.dirs = <<>>
        file == <<q.name, q.ext>>
    IN IF q.ext = "md" \/ (~top /\ q.dirs[1] = "docs") THEN "docs"
       ELSE IF \/ file = <<"cmakelists", "txt">>
               \/ q.ext = "cmake"
               \/ (top /\ file \in {<<"makefile", "">>, <<"meson", "build">>,
                                     <<"vcpkg", "json">>, <<"compile_commands", "json">>})
               \/ (top /\ q.name = "conanfile" /\ q.ext # "")
            THEN "manifest"
       ELSE IF \/ \E i \in 2..Len(q.dirs) : q.dirs[i] \in {"test", "tests"}
               \/ (q.test_suffix /\ q.ext \in {"c", "cpp"})
            THEN "tests"
       ELSE "code"

\* The upsert of one walked file: ON CONFLICT(namespace,path) DO UPDATE.
UpsertReplace(fl, ns, path, f, now) ==
    LET h == sha256_file(f)
        old == {r \in fl : r.namespace = ns /\ r.path = path}
    IN (fl \ old) \cup
       {[id |-> IF old = {} THEN NextId(fl) ELSE (CHOOSE r \in old : TRUE).id,
         namespace |-> ns, path |-> path, size |-> Len(f.bytes), mtime |-> f.mtime,
         sha |-> IF h.ok THEN h.sha ELSE <<>>,
         lang_guess |-> guess_lang(path), doc_kind |-> classify_doc(path),
         seen_at |-> now, indexed_sha |-> None, indexed_at |-> None]}

UpsertAppend(fl, ns, path, f, now) ==
    LET h == sha256_file(f) IN
    fl \cup {[id |-> NextId(fl), namespace |-> ns, path |-> path,
              size |-> Len(f.bytes), mtime |-> f.mtime,
              sha |-> IF h.ok THEN h.sha ELSE <<>>,
              lang_guess |-> guess_lang(path), doc_kind |-> classify_doc(path),
              seen_at |-> now, indexed_sha |-> None, indexed_at |-> None]}

UpsertResetIndexedAt(fl, ns, path, f, now) ==
    LET h == sha256_file(f)
        sha == IF h.ok THEN h.sha ELSE <<>>
        old == {r \in fl : r.namespace = ns /\ r.path = path}
    IN IF old = {}
       THEN fl \cup {[id |-> NextId(fl), namespace |-> ns, path |-> path,
                      size |-> Len(f.bytes), mtime |-> f.mtime, sha |-> sha,
                      lang_guess |-> guess_lang(path), doc_kind |-> classify_doc(path),
                      seen_at |-> now, indexed_sha |-> None, indexed_at |-> None]}
       ELSE {IF r \in old
             THEN [r EXCEPT !.size = Len(f.bytes), !.mtime = f.mtime,
                            !.sha = sha, !.lang_guess = guess_lang(path),
                            !.doc_kind = classify_doc(path), !.seen_at = now,
                            !.indexed_at = None]
             ELSE r : r \in fl}

Upsert(fl, ns, path, f, now) ==
    LET h == sha256_file(f)
        sha == IF h.ok THEN h.sha ELSE <<>>
        old == {r \in fl : r.namespace = ns /\ r.path = path}
    IN IF old = {}
       THEN fl \cup {[id |-> NextId(fl), namespace |-> ns, path |-> path,
                      size |-> Len(f.bytes), mtime |-> f.mtime, sha |-> sha,
                      lang_guess |-> guess_lang(path), doc_kind |-> classify_doc(path),
                      seen_at |-> now, indexed_sha |-> None, indexed_at |-> None]}
       ELSE {IF r \in old
             THEN [r EXCEPT !.size = Len(f.bytes), !.mtime = f.mtime,
                            !.sha = sha, !.lang_guess = guess_lang(path),
                            !.doc_kind = classify_doc(path), !.seen_at = now]
             ELSE r : r \in fl}

RECURSIVE ScanWalk(_, _, _, _)
ScanWalk(fl, ns, i, now) ==
    IF i > Len(PathOrder) THEN fl
    ELSE LET p == PathOrder[i] IN
         ScanWalk(IF fs[p].present THEN Upsert(fl, ns, p, fs[p], now) ELSE fl,
                  ns, i + 1, now)

(***************************************************************************)
(* index                                                                   *)
(***************************************************************************)
RetainedKinds ==
    {"function", "class", "struct", "namespace", "prototype", "member",
     "enum", "union", "typedef"}

\* A file is pending when indexed_sha IS NULL OR indexed_sha != sha.
IsPending(r) == r.indexed_sha = None \/ Unwrap(r.indexed_sha) # r.sha

PendingAll(ns) ==
    LET rows == {r \in files : r.namespace = ns}
        at(i) == CHOOSE r \in rows : r.path = PathOrder[i]
    IN Concat([i \in 1..Len(PathOrder) |->
                 IF \E r \in rows : r.path = PathOrder[i]
                 THEN <<[id |-> at(i).id, rel_path |-> at(i).path,
                         sha |-> at(i).sha, mtime |-> at(i).mtime]>>
                 ELSE <<>>])

\* pending_files: the rows of the namespace that are pending, ORDER BY path.
pending_files(ns) ==
    LET rows == {r \in files : r.namespace = ns /\ IsPending(r)}
        at(i) == CHOOSE r \in rows : r.path = PathOrder[i]
    IN Concat([i \in 1..Len(PathOrder) |->
                 IF \E r \in rows : r.path = PathOrder[i]
                 THEN <<[id |-> at(i).id, rel_path |-> at(i).path,
                         sha |-> at(i).sha, mtime |-> at(i).mtime]>>
                 ELSE <<>>])

PendingPathsOf(fl, ns) == {r.path : r \in {x \in fl : x.namespace = ns /\ IsPending(x)}}

PendingPaths(ns) == PendingPathsOf(files, ns)

\* run_ctags: the tagger's run is `out`: it could not be spawned, exited
\* non-zero, or printed lines of which those that parse as a record are kept.
CtagsFailureIgnored(out) ==
    [ok |-> TRUE,
     tags |-> IF out.status # "ok" THEN <<>>
              ELSE SelectSeqP(out.stdout,
                     {l \in {out.stdout[i] : i \in 1..Len(out.stdout)} : l.parses}, 1)]

run_ctags(out) ==
    IF out.status # "ok" THEN [ok |-> FALSE, tags |-> <<>>]
    ELSE [ok |-> TRUE,
          tags |-> SelectSeqP(out.stdout,
                              {l \in {out.stdout[i] : i \in 1..Len(out.stdout)} : l.parses}, 1)]

\* Vec::sort_by_key(|t| t.line.unwrap_or(0)): a stable sort.
RECURSIVE InsertByLine(_, _)
InsertByLine(sorted, t) ==
    IF sorted = <<>> THEN <<t>>
    ELSE IF UnwrapOr(Last(sorted).line, 0) <= UnwrapOr(t.line, 0) THEN Append(sorted, t)
    ELSE Append(InsertByLine(SubSeq(sorted, 1, Len(sorted) - 1), t), Last(sorted))

RECURSIVE SortByLine(_)
SortByLine(ts) ==
    IF ts = <<>> THEN <<>>
    ELSE InsertByLine(SortByLine(SubSeq(ts, 1, Len(ts) - 1)), Last(ts))

\* by_path[path]: the retained records of the path, sorted by line.
Retained(t) == IsSome(t.line) /\ t.kind \in RetainedKinds

ByPathAnyFile(ctags, path) ==
    SortByLine(SelectSeqP(ctags,
        {t \in {ctags[i] : i \in 1..Len(ctags)} : Retained(t)}, 1))

ByPath(ctags, path) ==
    SortByLine(SelectSeqP(ctags,
        {t \in {ctags[i] : i \in 1..Len(ctags)} : Retained(t) /\ t.path = path}, 1))

Fqn(scope, name) == scope \o <<":", ":">> \o name

ChunkKind(k) ==
    CASE k \in {"function", "prototype", "member"} -> "function"
      [] k \in {"class", "struct"} -> "class"
      [] k = "namespace" -> "namespace"
      [] k = "enum" -> "enum"
      [] k = "union" -> "union"
      [] k = "typedef" -> "typedef"
      [] OTHER -> "block"

ChunkSpecNoClamp(ftags, i, total_lines) ==
    LET t == ftags[i]
        begin == UnwrapOr(t.line, 1)
        end == IF IsSome(t.end_line) THEN Unwrap(t.end_line)
               ELSE IF i + 1 <= Len(ftags)
                    THEN UnwrapOr(ftags[i + 1].line, begin + 1) - 1
                    ELSE total_lines
    IN IF begin <= 0 \/ end < begin THEN <<>>
       ELSE <<[kind |-> ChunkKind(t.kind),
               symbol |-> Some(IF IsSome(t.scope) THEN Fqn(Unwrap(t.scope), t.name)
                               ELSE t.name),
               begin_line |-> begin, end_line |-> end]>>

\* build_chunks_v1: one ChunkSpec per tag, malformed ones dropped.
ChunkSpecOf(ftags, i, total_lines) ==
    LET t == ftags[i]
        begin == UnwrapOr(t.line, 1)
        end == IF IsSome(t.end_line) THEN Unwrap(t.end_line)
               ELSE IF i + 1 <= Len(ftags)
                    THEN MaxOf(UnwrapOr(ftags[i + 1].line, begin + 1) - 1, begin)
                    ELSE total_lines
    IN IF begin <= 0 \/ end < begin THEN <<>>
       ELSE <<[kind |-> ChunkKind(t.kind),
               symbol |-> Some(IF IsSome(t.scope) THEN Fqn(Unwrap(t.scope), t.name)
                               ELSE t.name),
               begin_line |-> begin, end_line |-> end]>>

BuildChunksKeepMalformed(ftags, total_lines) ==
    [i \in 1..Len(ftags) |->
        LET t == ftags[i]
            begin == UnwrapOr(t.line, 1)
            end == IF IsSome(t.end_line) THEN Unwrap(t.end_line)
                   ELSE IF i + 1 <= Len(ftags)
                        THEN MaxOf(UnwrapOr(ftags[i + 1].line, begin + 1) - 1, begin)
                        ELSE total_lines
        IN [kind |-> ChunkKind(t.kind),
            symbol |-> Some(IF IsSome(t.scope) THEN Fqn(Unwrap(t.scope), t.name)
                            ELSE t.name),
            begin_line |-> begin, end_line |-> end]]

build_chunks_v1(ftags, total_lines) ==
    Concat([i \in 1..Len(ftags) |-> ChunkSpecOf(ftags, i, total_lines)])

RECURSIVE InsertTags(_, _, _, _)
InsertTags(tg, file_id, ftags, i) ==
    IF i > Len(ftags) THEN tg
    ELSE LET t == ftags[i] IN
         InsertTags(tg \cup {[id |-> NextId(tg), file_id |-> file_id, name |-> t.name,
                              kind |-> t.kind, line |-> UnwrapOr(t.line, 0),
                              scope |-> t.scope, scope_kind |-> t.scope_kind,
                              signature |-> t.signature,
                              lang |-> UnwrapOr(t.language, ""),
                              end_line |-> t.end_line]},
                    file_id, ftags, i + 1)

RECURSIVE InsertChunks(_, _, _, _, _)
InsertChunks(s, pf, file_text, specs, i) ==
    IF i > Len(specs) THEN s
    ELSE LET c == specs[i]
             text == slice_text(file_text, c.begin_line, c.end_line)
         IN InsertChunks(
                InsertChunk(s.chunks, s.fts,
                    [id |-> NextId(s.chunks), file_id |-> pf.id, kind |-> c.kind,
                     symbol |-> c.symbol, begin_line |-> c.begin_line,
                     end_line |-> c.end_line, sha |-> sha256_str(text),
                     mtime |-> pf.mtime, text |-> text]),
                pf, file_text, specs, i + 1)


\* What the loop body does when read_text_sanitized fails: warn and continue.
ReadFailedAbort(s, pf) == [s EXCEPT !.aborted = TRUE]

ReadFailed(s, pf) == [s EXCEPT !.skipped = @ \cup {pf.rel_path}]

IndexFileDeleteFirst(s, pf, ctags, now) ==
    LET rd == read_text_sanitized(fs[pf.rel_path])
        tg1 == {t \in s.tags : t.file_id # pf.id}
        del == DeleteChunks(s.chunks, s.fts, pf.id)
    IN
    IF ~rd.ok THEN ReadFailed([s EXCEPT !.tags = tg1, !.chunks = del.chunks,
                                        !.fts = del.fts], pf)
    ELSE
    LET file_text == rd.text
        total_lines == MaxOf(Len(Lines(file_text)), 1)
        ftags == ByPath(ctags, pf.rel_path)
        tg2 == InsertTags(tg1, pf.id, ftags, 1)
        ins == InsertChunks([chunks |-> del.chunks, fts |-> del.fts], pf, file_text,
                            build_chunks_v1(ftags, total_lines), 1)
    IN [s EXCEPT !.tags = tg2, !.chunks = ins.chunks, !.fts = ins.fts,
                 !.files = {IF r.id = pf.id
                            THEN [r EXCEPT !.indexed_sha = Some(pf.sha),
                                           !.indexed_at = Some(now)]
                            ELSE r : r \in s.files},
                 !.rebuilt = @ \cup {pf.rel_path}]

IndexFileNoDelete(s, pf, ctags, now) ==
    LET rd == read_text_sanitized(fs[pf.rel_path]) IN
    IF ~rd.ok THEN ReadFailed(s, pf)
    ELSE
    LET file_text == rd.text
        total_lines == MaxOf(Len(Lines(file_text)), 1)
        ftags == ByPath(ctags, pf.rel_path)
        tg2 == InsertTags(s.tags, pf.id, ftags, 1)
        ins == InsertChunks([chunks |-> s.chunks, fts |-> s.fts], pf, file_text,
                            build_chunks_v1(ftags, total_lines), 1)
    IN [s EXCEPT !.tags = tg2, !.chunks = ins.chunks, !.fts = ins.fts,
                 !.files = {IF r.id = pf.id
                            THEN [r EXCEPT !.indexed_sha = Some(pf.sha),
                                           !.indexed_at = Some(now)]
                            ELSE r : r \in s.files},
                 !.rebuilt = @ \cup {pf.rel_path}]

\* The loop body for one pending file, inside the transaction.
IndexFile(s, pf, ctags, now) ==
    LET rd == read_text_sanitized(fs[pf.rel_path]) IN
    IF ~rd.ok THEN ReadFailed(s, pf)
    ELSE
    LET file_text == rd.text
        total_lines == MaxOf(Len(Lines(file_text)), 1)
        ftags == ByPath(ctags, pf.rel_path)
        tg1 == {t \in s.tags : t.file_id # pf.id}
        del == DeleteChunks(s.chunks, s.fts, pf.id)
        tg2 == InsertTags(tg1, pf.id, ftags, 1)
        ins == InsertChunks([chunks |-> del.chunks, fts |-> del.fts], pf, file_text,
                            build_chunks_v1(ftags, total_lines), 1)
    IN [s EXCEPT !.tags = tg2, !.chunks = ins.chunks, !.fts = ins.fts,
                 !.files = {IF r.id = pf.id
                            THEN [r EXCEPT !.indexed_sha = Some(pf.sha),
                                           !.indexed_at = Some(now)]
                            ELSE r : r \in s.files},
                 !.rebuilt = @ \cup {pf.rel_path}]

RECURSIVE IndexLoop(_, _, _, _, _)
IndexLoop(s, pending, i, ctags, now) ==
    IF i > Len(pending) \/ s.aborted THEN s
    ELSE IndexLoop(IndexFile(s, pending[i], ctags, now), pending, i + 1, ctags, now)

IndexRunNoEarlyReturn(ns, out, now) ==
    LET s0 == [files |-> files, tags |-> tags, chunks |-> chunks, fts |-> fts,
               rebuilt |-> {}, skipped |-> {}, aborted |-> FALSE]
        ct == run_ctags(out)
    IN IF ~ct.ok THEN s0 @@ [result |-> "tagger_failed"]
       ELSE IndexLoop(s0, pending_files(ns), 1, ct.tags, now) @@ [result |-> "ok"]

\* index::run for namespace ns with the tagger's run `out`: the result and
\* the store it leaves (a transaction that does not commit leaves it as it was).
IndexRun(ns, out, now) ==
    LET pending == pending_files(ns)
        s0 == [files |-> files, tags |-> tags, chunks |-> chunks, fts |-> fts,
               rebuilt |-> {}, skipped |-> {}, aborted |-> FALSE]
    IN IF pending = <<>> THEN [s0 EXCEPT !.aborted = FALSE] @@ [result |-> "noop"]
       ELSE LET ct == run_ctags(out) IN
            IF ~ct.ok THEN s0 @@ [result |-> "tagger_failed"]
            ELSE LET s1 == IndexLoop(s0, pending, 1, ct.tags, now) IN
                 IF s1.aborted THEN s0 @@ [result |-> "aborted"]
                 ELSE s1 @@ [result |-> "ok"]

(***************************************************************************)
(* The tagger's possible runs.                                             *)
(***************************************************************************)
CT(name, path, kind, line, end_line, scope) ==
    [parses |-> TRUE, name |-> <<name>>, path |-> path, kind |-> kind,
     language |-> Some("C++"), line |-> line, end_line |-> end_line,
     scope |-> IF scope = "" THEN None ELSE Some(<<scope>>),
     scope_kind |-> IF scope = "" THEN None ELSE Some("class"),
     signature |-> IF kind = "function" THEN Some("()") ELSE None,
     type_ref |-> None]

Garbage == [CT("", "", "", None, None, "") EXCEPT !.parses = FALSE]

OtherPath(p) == CHOOSE q \in Paths : q # p

\* What the tagger prints for one file it was given, by the file's content:
\* well-formed records, records out of line order, lines that are no record,
\* kinds that are not retained, records without a line, malformed line
\* numbers, and a record for a path it was not asked about.
TagsOf(bytes, p) ==
    IF bytes = TextLf THEN
        << CT("run", p, "function", Some(1), None, ""),
           CT("run", p, "function", Some(3), None, "Worker") >>
    ELSE IF bytes = TextCrlf THEN
        << CT("g", p, "function", Some(3), None, ""),
           Garbage,
           CT("v", p, "variable", Some(2), None, ""),
           CT("h", p, "class", None, None, ""),
           CT("f", p, "struct", Some(1), Some(2), "") >>
    ELSE IF bytes = TextBin THEN
        << CT("z", p, "function", Some(0), None, ""),
           CT("y", p, "member", Some(3), Some(2), "Worker"),
           CT("x", p, "enum", Some(2), None, ""),
           CT("w", OtherPath(p), "function", Some(1), None, "") >>
    ELSE IF bytes = TextCode THEN
        << CT("Worker", p, "class", Some(3), None, "") >>
    ELSE IF bytes = TextScopes THEN
        << CT("run", p, "function", Some(1), None, "Pool") >>
    ELSE <<>>

\* The tagger's standard output for the paths written to its standard input.
TaggerStdout(paths) ==
    Concat([i \in 1..Len(paths) |->
              IF fs[paths[i]].present /\ fs[paths[i]].readable
              THEN TagsOf(fs[paths[i]].bytes, paths[i]) ELSE <<>>])

\* The ways the tagger's run can end, for the paths of the pending batch.
TaggerRuns(paths) ==
    {[status |-> "spawn_failed", stdout |-> <<>>],
     [status |-> "exit_nonzero", stdout |-> <<>>],
     [status |-> "ok", stdout |-> TaggerStdout(paths)]}

(***************************************************************************)
(* History kept for stating the properties.                                *)
(***************************************************************************)
\* The digest scan would store for a path now.
ScanSha(p) == IF sha256_file(fs[p]).ok THEN sha256_file(fs[p]).sha ELSE <<>>

\* Every file of the tree is catalogued and indexed in ns, and the catalogue
\* is that of the tree except for path x, whose content has changed since.
CleanExcept(ns, x) ==
    /\ fs[x].present
    /\ \A p \in Paths : fs[p].present => FileRow(ns, p) # {}
    /\ \A r \in files : r.namespace = ns =>
          /\ ~IsPending(r)
          /\ (r.sha = ScanSha(r.path)) <=> (r.path # x)

Event(op, ns, result, tagger, pending, rebuilt, skipped, dirty) ==
    [op |-> op, ns |-> ns, result |-> result, tagger |-> tagger, pending |-> pending,
     rebuilt |-> rebuilt, skipped |-> skipped, dirty |-> dirty]

Push(h, e) ==
    IF Len(h) < HistLen THEN Append(h, e) ELSE Append(Tail(h), e)


(***************************************************************************)
(* explain: resolve_target                                                 *)
(***************************************************************************)
\* split_fqn: split at the rightmost "::".
RFindColons(s) ==
    LET at == {i \in 1..(Len(s) - 1) : s[i] = ":" /\ s[i + 1] = ":"} IN
    IF at = {} THEN 0 ELSE SetMax(at)

split_fqn(s) ==
    LET pos == RFindColons(s) IN
    IF pos > 0 THEN [scope |-> Some(SubSeq(s, 1, pos - 1)), name |-> SubSeq(s, pos + 2, Len(s))]
    ELSE [scope |-> None, name |-> s]

\* str::split(':')
RECURSIVE SplitColon(_, _, _)
SplitColon(s, i, cur) ==
    IF i > Len(s) THEN <<cur>>
    ELSE IF s[i] = ":" THEN <<cur>> \o SplitColon(s, i + 1, <<>>)
    ELSE SplitColon(s, i + 1, Append(cur, s[i]))

Digits == <<"0", "1", "2", "3", "4", "5", "6", "7", "8", "9">>

DigitVal(c) == (CHOOSE d \in 1..10 : Digits[d] = c) - 1

RECURSIVE DigitsVal(_, _, _)
DigitsVal(s, i, acc) ==
    IF i > Len(s) THEN acc ELSE DigitsVal(s, i + 1, acc * 10 + DigitVal(s[i]))

\* i64::from_str: an optional sign, then one or more decimal digits.
ParseI64(s) ==
    LET signed == s # <<>> /\ s[1] \in {"+", "-"}
        ds == IF signed THEN Tail(s) ELSE s
    IN IF ds = <<>> \/ \E i \in 1..Len(ds) : \A d \in 1..10 : Digits[d] # ds[i]
       THEN [ok |-> FALSE, val |-> 0]
       ELSE [ok |-> TRUE,
             val |-> IF signed /\ s[1] = "-" THEN 0 - DigitsVal(ds, 1, 0)
                     ELSE DigitsVal(ds, 1, 0)]

ParseRangeNoReorder(s) ==
    LET parts == SplitColon(s, 1, <<>>) IN
    IF Len(parts) # 2 \/ ~ParseI64(parts[1]).ok \/ ~ParseI64(parts[2]).ok
    THEN [ok |-> FALSE, a |-> 0, b |-> 0]
    ELSE [ok |-> TRUE, a |-> ParseI64(parts[1]).val, b |-> ParseI64(parts[2]).val]

parse_range(s) ==
    LET parts == SplitColon(s, 1, <<>>) IN
    IF Len(parts) # 2 THEN [ok |-> FALSE, a |-> 0, b |-> 0]
    ELSE LET a == ParseI64(parts[1])
             b == ParseI64(parts[2])
         IN IF ~a.ok \/ ~b.ok THEN [ok |-> FALSE, a |-> 0, b |-> 0]
            ELSE [ok |-> TRUE, a |-> MinOf(a.val, b.val), b |-> MaxOf(a.val, b.val)]

\* approx_end_line: the next tag of the file minus one, else the file's
\* line count; Err when the file cannot be read.
approx_end_line(ns, path, begin) ==
    LET later == {t.line : t \in {u \in tags :
                      /\ RowOf(files, u.file_id).namespace = ns
                      /\ RowOf(files, u.file_id).path = path
                      /\ u.line > begin}}
        next == IF later = {} THEN 0 ELSE SetMin(later)
    IN IF next > 0 THEN [ok |-> TRUE, val |-> next - 1]
       ELSE LET rd == read_text_sanitized(fs[path]) IN
            IF rd.ok THEN [ok |-> TRUE, val |-> Len(Lines(rd.text))]
            ELSE [ok |-> FALSE, val |-> 0]

NoTarget ==
    [file_id |-> 0, path |-> "", name |-> <<>>, fqn |-> None, kind |-> "",
     begin_line |-> 0, end_line |-> 0, signature |-> None]

\* The outcomes of resolve_target: Ok(Some(target)), Ok(None), Err(err).
\* range is what parse_range returned, when it was called.
OkTarget(t, range) == [kind |-> "target", err |-> "", target |-> t, range |-> range]

OkNone == [kind |-> "none", err |-> "", target |-> NoTarget, range |-> None]

Err(e, range) == [kind |-> "err", err |-> e, target |-> NoTarget, range |-> range]

\* ORDER BY (CASE WHEN t.scope IS NULL THEN 1 ELSE 0 END), f.path, t.line
SymbolOrderKey(t) ==
    <<IF t.scope = None THEN 1 ELSE 0, PathRank(RowOf(files, t.file_id).path), t.line>>

KeyLeq(k1, k2) ==
    \/ k1[1] < k2[1]
    \/ k1[1] = k2[1] /\ k1[2] < k2[2]
    \/ k1[1] = k2[1] /\ k1[2] = k2[2] /\ k1[3] <= k2[3]

SymbolCandidatesAnyNamespace(ns, sym) ==
    {t \in tags :
        \/ t.name = split_fqn(sym).name
        \/ IsSome(t.scope) /\ Fqn(Unwrap(t.scope), t.name) = sym}

\* The rows the symbol query selects from, before ORDER BY ... LIMIT 1.
SymbolCandidates(ns, sym) ==
    {t \in tags :
        /\ RowOf(files, t.file_id).namespace = ns
        /\ \/ t.name = split_fqn(sym).name
           \/ IsSome(t.scope) /\ Fqn(Unwrap(t.scope), t.name) = sym}

\* The symbol branch for the row the query returned.
SymbolTarget(ns, t) ==
    LET path == RowOf(files, t.file_id).path
        end0 == UnwrapOr(t.end_line, 0)
        ae == approx_end_line(ns, path, t.line)
    IN IF end0 <= 0 /\ ~ae.ok THEN Err("io", None)
       ELSE OkTarget([file_id |-> t.id, path |-> path, name |-> t.name,
                      fqn |-> IF IsSome(t.scope) THEN Some(Fqn(Unwrap(t.scope), t.name))
                              ELSE None,
                      kind |-> t.kind, begin_line |-> t.line,
                      end_line |-> IF end0 <= 0 THEN ae.val ELSE end0,
                      signature |-> t.signature], None)

RangeBranchNoFallback(ns, p, rng) ==
    LET pr == parse_range(rng) IN
    IF ~pr.ok THEN {Err("parse", None)}
    ELSE LET range == Some(<<pr.a, pr.b>>) IN
    IF FileRow(ns, p) = {} THEN {Err("file not indexed", range)}
    ELSE LET file_id == (CHOOSE r \in FileRow(ns, p) : TRUE).id
             above == {t \in tags : t.file_id = file_id /\ t.line <= pr.a}
             nearest == {t \in above : \A u \in above : u.line <= t.line}
         IN IF above = {}
            THEN {OkNone}
            ELSE {LET end0 == UnwrapOr(t.end_line, 0)
                      ae == approx_end_line(ns, p, t.line)
                  IN IF end0 <= 0 /\ ~ae.ok THEN Err("io", range)
                     ELSE OkTarget([file_id |-> file_id, path |-> p, name |-> t.name,
                                    fqn |-> IF IsSome(t.scope)
                                            THEN Some(Fqn(Unwrap(t.scope), t.name))
                                            ELSE None,
                                    kind |-> t.kind, begin_line |-> t.line,
                                    end_line |-> IF end0 <= 0 THEN MaxOf(pr.b, ae.val)
                                                 ELSE end0,
                                    signature |-> t.signature], range)
                  : t \in nearest}

\* The (file, lines) branch.
RangeBranch(ns, p, rng) ==
    LET pr == parse_range(rng) IN
    IF ~pr.ok THEN {Err("parse", None)}
    ELSE LET range == Some(<<pr.a, pr.b>>) IN
    IF FileRow(ns, p) = {} THEN {Err("file not indexed", range)}
    ELSE LET file_id == (CHOOSE r \in FileRow(ns, p) : TRUE).id
             above == {t \in tags : t.file_id = file_id /\ t.line <= pr.a}
             nearest == {t \in above : \A u \in above : u.line <= t.line}
         IN IF above = {}
            THEN {OkTarget([file_id |-> file_id, path |-> p, name |-> <<"<range>">>,
                            fqn |-> None, kind |-> "block", begin_line |-> pr.a,
                            end_line |-> pr.b, signature |-> None], range)}
            ELSE {LET end0 == UnwrapOr(t.end_line, 0)
                      ae == approx_end_line(ns, p, t.line)
                  IN IF end0 <= 0 /\ ~ae.ok THEN Err("io", range)
                     ELSE OkTarget([file_id |-> file_id, path |-> p, name |-> t.name,
                                    fqn |-> IF IsSome(t.scope)
                                            THEN Some(Fqn(Unwrap(t.scope), t.name))
                                            ELSE None,
                                    kind |-> t.kind, begin_line |-> t.line,
                                    end_line |-> IF end0 <= 0 THEN MaxOf(pr.b, ae.val)
                                                 ELSE end0,
                                    signature |-> t.signature], range)
                  : t \in nearest}

\* resolve_target: the set of its possible outcomes (rows that tie in an
\* ORDER BY ... LIMIT 1 may come back in either order).
resolve_target(ns, symbol, file, lines) ==
    LET cands == IF IsSome(symbol) THEN SymbolCandidates(ns, Unwrap(symbol)) ELSE {}
        firsts == {t \in cands : \A u \in cands : KeyLeq(SymbolOrderKey(t), SymbolOrderKey(u))}
    IN IF cands # {} THEN {SymbolTarget(ns, t) : t \in firsts}
       ELSE IF IsSome(file) /\ IsSome(lines) THEN RangeBranch(ns, Unwrap(file), Unwrap(lines))
       ELSE {OkNone}

(***************************************************************************)
(* The assembler of explain: six sections of text about a Target.          *)
(***************************************************************************)
\* "—", the text of a section that found nothing
Dash == <<226, 128, 148>>

\* "• "
Bullet == <<226, 128, 162, 32>>

\* The outcome of one section: Ok(text) or Err.
SecOk(text) == [ok |-> TRUE, text |-> text]

SecErr == [ok |-> FALSE, text |-> <<>>]

IsSpace(b) == b \in {9, 10, 11, 12, 13, 32}

\* str::trim_start
RECURSIVE TrimStart(_)
TrimStart(l) == IF l # <<>> /\ IsSpace(l[1]) THEN TrimStart(Tail(l)) ELSE l

StartsWith(l, prefix) ==
    Len(l) >= Len(prefix) /\ SubSeq(l, 1, Len(prefix)) = prefix

\* [str].join(sep)
RECURSIVE Join(_, _)
Join(ls, sep) ==
    IF ls = <<>> THEN <<>>
    ELSE IF Len(ls) = 1 THEN ls[1]
    ELSE ls[1] \o sep \o Join(Tail(ls), sep)

\* Iterator::take(n)
Take(ls, n) == SubSeq(ls, 1, MinOf(Len(ls), n))

Reverse(ls) == [i \in 1..Len(ls) |-> ls[Len(ls) + 1 - i]]

\* section_decl_def: the Target's lines with the window around them.
section_decl_def(tgt, win) ==
    LET txt == read_text_sanitized(fs[tgt.path]) IN
    IF ~txt.ok THEN SecErr
    ELSE SecOk(slice_lines(txt.text, MaxOf(tgt.begin_line - win, 1), tgt.end_line + win))

\* Lines of the span around a Target kept by section_preproc.
PreprocSpan == 30

PreprocKept == 30

\* section_preproc: the lines around the Target that start with '#'.
section_preproc(tgt, span) ==
    LET txt == read_text_sanitized(fs[tgt.path]) IN
    IF ~txt.ok THEN SecErr
    ELSE LET slice == slice_lines(txt.text, MaxOf(tgt.begin_line - span, 1),
                                  tgt.end_line + span)
             ls == Lines(slice)
             hash == SelectSeqP(ls, {l \in {ls[i] : i \in 1..Len(ls)} :
                                        StartsWith(TrimStart(l), <<35>>)}, 1)
             out == Join(Take(hash, PreprocKept), <<LF>>)
         IN SecOk(IF out = <<>> THEN Dash ELSE out)

\* Lines above the Target read by section_comments, and lines it scans.
CommentsUp == 12

CommentsScanned == 40

IsCommentLine(l) ==
    LET t == TrimStart(l) IN
    \/ StartsWith(t, <<47, 47>>)
    \/ StartsWith(t, <<47, 42>>)
    \/ StartsWith(t, <<42>>)
    \/ StartsWith(t, <<42, 47>>)

\* The loop of section_comments over the lines, nearest first: comment lines
\* are collected until a line that is no comment follows a collected one.
RECURSIVE CollectComments(_, _, _)
CollectComments(ls, i, out) ==
    IF i > Len(ls) THEN out
    ELSE IF IsCommentLine(ls[i]) THEN CollectComments(ls, i + 1, Append(out, ls[i]))
    ELSE IF out # <<>> THEN out
    ELSE CollectComments(ls, i + 1, out)

\* section_comments: the comment block nearest above the Target's first line.
section_comments(tgt, up) ==
    LET txt == read_text_sanitized(fs[tgt.path]) IN
    IF ~txt.ok THEN SecErr
    ELSE LET start == MaxOf(tgt.begin_line - up, 1)
             head == slice_lines(txt.text, start, tgt.begin_line)
             out == Reverse(CollectComments(Take(Reverse(Lines(head)), CommentsScanned),
                                            1, <<>>))
         IN SecOk(IF out = <<>> THEN Dash ELSE Join(out, <<LF>>))

\* The bytes of the words that names, scopes and signatures are made of.
WordBytes(w) ==
    CASE w = "run" -> <<114, 117, 110>>
      [] w = "Worker" -> <<87, 111, 114, 107, 101, 114>>
      [] w = "nosuch" -> <<110, 111, 115, 117, 99, 104>>
      [] w = "<range>" -> <<60, 114, 97, 110, 103, 101, 62>>
      [] w = "()" -> <<40, 41>>
      [] w = ":" -> <<58>>
      [] w = "f" -> <<102>>
      [] w = "g" -> <<103>>
      [] w = "h" -> <<104>>
      [] w = "v" -> <<118>>
      [] w = "w" -> <<119>>
      [] w = "x" -> <<120>>
      [] w = "y" -> <<121>>
      [] w = "z" -> <<122>>
      [] OTHER -> <<>>

NameBytes(tokens) == Concat([i \in 1..Len(tokens) |-> WordBytes(tokens[i])])

PathBytes(p) ==
    IF p = "a.cpp" THEN <<97, 46, 99, 112, 112>> ELSE <<98, 46, 99, 112, 112>>

\* Display of an i64 >= 0
RECURSIVE DecBytes(_)
DecBytes(n) == IF n < 10 THEN <<48 + n>> ELSE DecBytes(n \div 10) \o <<48 + (n % 10)>>

\* The ways a query without ORDER BY can return the rows of a set.
Orderings(S) ==
    {q \in [1..Cardinality(S) -> S] : \A i, j \in 1..Cardinality(S) : i # j => q[i] # q[j]}

\* fqn.rsplit("::").nth(1): the component right before the name.
EnclosingName(fqn) ==
    IF ~IsSome(fqn) THEN None
    ELSE LET outer == split_fqn(Unwrap(fqn)).scope IN
         IF ~IsSome(outer) THEN None ELSE Some(split_fqn(Unwrap(outer)).name)

\* section_class_type: the class or struct that encloses the Target, from
\* the first row of the query (paths ending in .hpp first, then by path).
section_class_type(ns, tgt, win) ==
    LET cls == EnclosingName(tgt.fqn) IN
    IF ~IsSome(cls) THEN {SecOk(Dash)}
    ELSE LET rows == {t \in tags : /\ RowOf(files, t.file_id).namespace = ns
                                   /\ t.kind \in {"class", "struct"}
                                   /\ t.name = Unwrap(cls)}
             key(t) == <<IF PathParts(RowOf(files, t.file_id).path).ext = "hpp"
                         THEN 0 ELSE 1,
                         PathRank(RowOf(files, t.file_id).path), 0>>
             firsts == {t \in rows : \A u \in rows : KeyLeq(key(t), key(u))}
         IN IF rows = {} THEN {SecOk(Dash)}
            ELSE {LET path == RowOf(files, t.file_id).path
                      end0 == UnwrapOr(t.end_line, 0)
                      ae == approx_end_line(ns, path, t.line)
                      txt == read_text_sanitized(fs[path])
                  IN IF (end0 <= 0 /\ ~ae.ok) \/ ~txt.ok THEN SecErr
                     ELSE SecOk(slice_lines(txt.text, MaxOf(t.line - win, 1),
                                            (IF end0 <= 0 THEN ae.val ELSE end0) + win))
                  : t \in firsts}

\* The character classes of the callee pattern
\* \b([A-Za-z_][\w:<>]*)\s*\( over ASCII text.
IsWordByte(b) ==
    (b >= 48 /\ b <= 57) \/ (b >= 65 /\ b <= 90) \/ (b >= 97 /\ b <= 122) \/ b = 95

IsNameByte(b) == IsWordByte(b) \/ b \in {58, 60, 62}

\* The last position of the run of bytes satisfying the class that starts at i
\* (i - 1 when there is none).
RECURSIVE NameEnd(_, _)
NameEnd(s, i) == IF i <= Len(s) /\ IsNameByte(s[i]) THEN NameEnd(s, i + 1) ELSE i - 1

RECURSIVE SpaceEnd(_, _)
SpaceEnd(s, i) == IF i <= Len(s) /\ IsSpace(s[i]) THEN SpaceEnd(s, i + 1) ELSE i - 1

\* The match of the pattern that starts at position k, if there is one:
\* the captured name and the position of the '('.
CalleeAt(s, k) ==
    LET e == NameEnd(s, k)
        paren == SpaceEnd(s, e + 1) + 1
    IN IF /\ IsWordByte(s[k]) /\ ~(s[k] >= 48 /\ s[k] <= 57)
          /\ (k = 1 \/ ~IsWordByte(s[k - 1]))
          /\ paren <= Len(s) /\ s[paren] = 40
       THEN [found |-> TRUE, name |-> SubSeq(s, k, e), paren |-> paren]
       ELSE [found |-> FALSE, name |-> <<>>, paren |-> 0]

\* if, for, while, switch, return, sizeof, static_cast, dynamic_cast, new, delete
NotCallees ==
    { <<105, 102>>, <<102, 111, 114>>, <<119, 104, 105, 108, 101>>,
      <<115, 119, 105, 116, 99, 104>>, <<114, 101, 116, 117, 114, 110>>,
      <<115, 105, 122, 101, 111, 102>>,
      <<115, 116, 97, 116, 105, 99, 95, 99, 97, 115, 116>>,
      <<100, 121, 110, 97, 109, 105, 99, 95, 99, 97, 115, 116>>,
      <<110, 101, 119>>, <<100, 101, 108, 101, 116, 101>> }

\* The loop over captures_iter: distinct names in order of first call.
RECURSIVE CalleeNames(_, _, _, _)
CalleeNames(s, k, names, limit) ==
    IF k > Len(s) THEN names
    ELSE LET m == CalleeAt(s, k) IN
         IF ~m.found THEN CalleeNames(s, k + 1, names, limit)
         ELSE IF m.name \in NotCallees THEN CalleeNames(s, m.paren + 1, names, limit)
         ELSE LET names2 == IF \E i \in 1..Len(names) : names[i] = m.name
                            THEN names ELSE Append(names, m.name)
              IN IF Len(names2) >= limit THEN names2
                 ELSE CalleeNames(s, m.paren + 1, names2, limit)

\* Names kept by section_callees, and rows read per name.
CalleesLimit == 12

CalleeRows == 3

\* "• fqn signature" of one row of the signature query.
CalleeLine(row) ==
    Bullet \o (IF IsSome(row.scope)
               THEN NameBytes(Fqn(Unwrap(row.scope), row.name))
               ELSE NameBytes(row.name))
           \o (IF IsSome(row.signature) THEN WordBytes(Unwrap(row.signature)) ELSE <<>>)

\* The texts the signature query can give for one name: up to CalleeRows
\* distinct rows in any order, joined with " | "; <<>> when no row matches.
CalleeTexts(ns, n) ==
    LET rows == {[name |-> t.name, scope |-> t.scope, signature |-> t.signature] :
                    t \in {u \in tags : /\ RowOf(files, u.file_id).namespace = ns
                                        /\ NameBytes(u.name) = n
                                        /\ u.kind \in {"function", "prototype", "member"}}}
        picks == {R \in SUBSET rows : Cardinality(R) = MinOf(Cardinality(rows), CalleeRows)}
    IN {Join([i \in 1..Len(q) |-> CalleeLine(q[i])], <<32, 124, 32>>) :
           q \in UNION {Orderings(R) : R \in picks}}

\* The lines of section_callees for the names from index i on.
RECURSIVE CalleeOut(_, _, _)
CalleeOut(ns, names, i) ==
    IF i > Len(names) THEN {<<>>}
    ELSE {(IF t = <<>> THEN <<>> ELSE <<t>>) \o rest :
             t \in CalleeTexts(ns, names[i]), rest \in CalleeOut(ns, names, i + 1)}

\* section_callees: the signatures of the functions the Target's text calls.
section_callees(ns, tgt, limit) ==
    LET txt == read_text_sanitized(fs[tgt.path]) IN
    IF ~txt.ok THEN {SecErr}
    ELSE LET body == slice_lines(txt.text, tgt.begin_line, tgt.end_line)
             names == CalleeNames(body, 1, <<>>, limit)
         IN IF names = <<>> THEN {SecOk(Dash)}
            ELSE {SecOk(Join(out, <<LF>>)) : out \in CalleeOut(ns, names, 1)}

\* SQLite's LIKE '%pat%' over ASCII: pat occurs in text, letters compared
\* without case and '_' matching any one character (no name of the model
\* holds a '%').
LowerByte(b) == IF b >= 65 /\ b <= 90 THEN b + 32 ELSE b

TextLike(text, pat) ==
    \E i \in 1..(Len(text) - Len(pat) + 1) :
        \A j \in 1..Len(pat) :
            pat[j] = 95 \/ LowerByte(text[i + j - 1]) = LowerByte(pat[j])

\* Rows shown by section_usage_examples.
UsageLimit == 3

\* "• path:line" for the rows in ORDER BY f.path, c.begin_line.
RECURSIVE UsageLines(_)
UsageLines(rows) ==
    IF rows = {} THEN <<>>
    ELSE LET first == CHOOSE c \in rows : \A d \in rows :
                          KeyLeq(<<PathRank(RowOf(files, c.file_id).path), c.begin_line, 0>>,
                                 <<PathRank(RowOf(files, d.file_id).path), d.begin_line, 0>>)
         IN <<Bullet \o PathBytes(RowOf(files, first.file_id).path) \o <<58>>
              \o DecBytes(first.begin_line)>>
            \o UsageLines(rows \ {first})

\* section_usage_examples: the chunks of test files whose text mentions the
\* Target's short name.
section_usage_examples(ns, symbol, limit) ==
    LET rows == {c \in chunks :
                    LET f == RowOf(files, c.file_id) IN
                    /\ f.namespace = ns
                    /\ (PathParts(f.path).has_test \/ f.doc_kind = "tests")
                    /\ TextLike(c.text, NameBytes(symbol))}
        out == Take(UsageLines(rows), limit)
    IN SecOk(IF out = <<>> THEN Dash ELSE Join(out, <<LF>>))

\* Steps 1 and 2 of explain::run after the Target is resolved: the six
\* sections in the order they are built, the first Err ending the run.
assemble(ns, tgt, win) ==
    {IF \E x \in {decl_def, class_type, pp, callees, usage, comments} : ~x.ok
     THEN [ok |-> FALSE, decl_def |-> <<>>, class_type |-> <<>>, pp |-> <<>>,
           callees |-> <<>>, usage |-> <<>>, comments |-> <<>>]
     ELSE [ok |-> TRUE, decl_def |-> decl_def.text, class_type |-> class_type.text,
           pp |-> pp.text, callees |-> callees.text, usage |-> usage.text,
           comments |-> comments.text] :
        decl_def \in {section_decl_def(tgt, win)},
        class_type \in section_class_type(ns, tgt, win),
        pp \in {section_preproc(tgt, PreprocSpan)},
        callees \in section_callees(ns, tgt, CalleesLimit),
        usage \in {section_usage_examples(ns, tgt.name, UsageLimit)},
        comments \in {section_comments(tgt, CommentsUp)}}

(***************************************************************************)
(* The queries put to the resolver.                                        *)
(***************************************************************************)
SymbolInputs ==
    {None, Some(<<"run">>), Some(<<"Worker", ":", ":", "run">>), Some(<<"nosuch">>)}

FileInputs == {None, Some("a.cpp")}

\* Range arguments, each with what it denotes: wf says whether it is two
\* colon-separated integers, lo and hi are then the smaller and the larger.
RangeCases ==
    { [text |-> <<"2", ":", "3">>, wf |-> TRUE, lo |-> 2, hi |-> 3],
      [text |-> <<"3", ":", "1">>, wf |-> TRUE, lo |-> 1, hi |-> 3],
      [text |-> <<"1", ":", "4">>, wf |-> TRUE, lo |-> 1, hi |-> 4],
      [text |-> <<"0", ":", "1", "0">>, wf |-> TRUE, lo |-> 0, hi |-> 10],
      [text |-> <<"+", "2", ":", "-", "1">>, wf |-> TRUE, lo |-> 0 - 1, hi |-> 2],
      [text |-> <<"3">>, wf |-> FALSE, lo |-> 0, hi |-> 0],
      [text |-> <<"1", ":", "2", ":", "3">>, wf |-> FALSE, lo |-> 0, hi |-> 0],
      [text |-> <<"x", ":", "3">>, wf |-> FALSE, lo |-> 0, hi |-> 0],
      [text |-> <<"1", ":">>, wf |-> FALSE, lo |-> 0, hi |-> 0],
      [text |-> <<" ", "1", ":", "2">>, wf |-> FALSE, lo |-> 0, hi |-> 0],
      [text |-> <<>>, wf |-> FALSE, lo |-> 0, hi |-> 0] }

LinesInputs == {None} \cup {Some(c.text) : c \in RangeCases}

NoQuery == [symbol |-> None, file |-> None, lines |-> None]

NoRes == [called |-> FALSE, query |-> NoQuery, out |-> OkNone]

\* No transaction is open.
NoTx ==
    [open |-> FALSE, phase |-> "none", i |-> 0, pending |-> <<>>, ctags |-> <<>>,
     now |-> 0, text |-> <<>>,
     s |-> [files |-> {}, tags |-> {}, chunks |-> {}, fts |-> {},
            rebuilt |-> {}, skipped |-> {}, aborted |-> FALSE]]

NoRead == [called |-> FALSE, path |-> "", out |-> [ok |-> FALSE, text |-> <<>>]]

NoFacts ==
    [called |-> FALSE, window |-> 0,
     out |-> [ok |-> FALSE, decl_def |-> <<>>, class_type |-> <<>>, pp |-> <<>>,
              callees |-> <<>>, usage |-> <<>>, comments |-> <<>>]]

(***************************************************************************)
(* Initial state and the actions of the indexing pipeline.                 *)
(***************************************************************************)
InitFile(c) == [present |-> TRUE, readable |-> TRUE, bytes |-> c, mtime |-> 0]

Init ==
    /\ fs = [p \in Paths |-> IF p = "a.cpp" THEN InitFile(TextLf) ELSE InitFile(TextCrlf)]
    /\ namespace = "n1"
    /\ files = {} /\ tags = {} /\ chunks = {} /\ fts = {}
    /\ clock = 1
    /\ edits = 0
    /\ hist = <<>>
    /\ res = NoRes
    /\ rtext = NoRead
    /\ facts = NoFacts
    /\ tx = NoTx

\* The user's editor rewrites a file of the tree.
WriteFile ==
    \E p \in Paths, c \in Contents :
        /\ edits < MaxEdits
        /\ fs[p].bytes # c
        /\ fs' = [fs EXCEPT ![p].bytes = c, ![p].mtime = clock]
        /\ edits' = edits + 1
        /\ hist' = <<>>
        /\ res' = NoRes
        /\ facts' = NoFacts
        /\ UNCHANGED <<tx, namespace, files, tags, chunks, fts, clock, rtext>>

\* The permissions of a file change: it becomes unreadable, or readable again.
Chmod ==
    \E p \in Paths :
        /\ edits < MaxEdits
        /\ fs' = [fs EXCEPT ![p].readable = ~@]
        /\ edits' = edits + 1
        /\ hist' = <<>>
        /\ res' = NoRes
        /\ facts' = NoFacts
        /\ UNCHANGED <<tx, namespace, files, tags, chunks, fts, clock, rtext>>

\* scan::run
Scan ==
    /\ clock < MaxClock
    /\ files' = ScanWalk(files, namespace, 1, clock)
    /\ clock' = clock + 1
    /\ hist' = Push(hist, Event("scan", namespace, "ok", "not_run", PendingPaths(namespace), {}, {},
                                {x \in Paths : CleanExcept(namespace, x)}))
    /\ res' = NoRes
    /\ facts' = NoFacts
    /\ UNCHANGED <<tx, fs, namespace, tags, chunks, fts, edits, rtext>>

\* index::run
Index ==
    \E out \in TaggerRuns([i \in 1..Len(pending_files(namespace)) |->
                               pending_files(namespace)[i].rel_path]) :
        LET r == IndexRun(namespace, out, clock) IN
        /\ clock < MaxClock
        /\ files' = r.files /\ tags' = r.tags /\ chunks' = r.chunks /\ fts' = r.fts
        /\ clock' = clock + 1
        /\ hist' = Push(hist, Event("index", namespace, r.result,
                                    IF PendingPaths(namespace) = {} THEN "not_run"
                                    ELSE out.status,
                                    PendingPaths(namespace), r.rebuilt, r.skipped, {}))
        /\ res' = NoRes
        /\ facts' = NoFacts
        /\ UNCHANGED <<tx, fs, namespace, edits, rtext>>

Next == WriteFile \/ Chmod \/ Scan \/ Index

Spec == Init /\ [][Next]_vars

(***************************************************************************)
(* The resolver over the stores the pipeline builds.                       *)
(***************************************************************************)
InitResolve ==
    /\ fs \in {f \in [Paths -> {InitFile(c) : c \in Contents}] :
                  f["b.cpp"].bytes \in {TextLf, TextBin}}
    /\ namespace = "n1"
    /\ files = {} /\ tags = {} /\ chunks = {} /\ fts = {}
    /\ clock = 1
    /\ edits = 0
    /\ hist = <<>>
    /\ res = NoRes
    /\ rtext = NoRead
    /\ facts = NoFacts
    /\ tx = NoTx

\* explain::run is started with a query and resolves its target.
Resolve ==
    /\ ~res.called
    /\ \E symbol \in SymbolInputs, file \in FileInputs, lines \in LinesInputs :
        \E out \in resolve_target(namespace, symbol, file, lines) :
            /\ res' = [called |-> TRUE,
                       query |-> [symbol |-> symbol, file |-> file, lines |-> lines],
                       out |-> out]
            /\ UNCHANGED <<tx, fs, namespace, files, tags, chunks, fts, clock, edits, hist, rtext, facts>>

\* explain::run returns and the process ends.
ExplainExit ==
    /\ res.called
    /\ res' = NoRes
    /\ facts' = NoFacts
    /\ UNCHANGED <<tx, fs, namespace, files, tags, chunks, fts, clock, edits, hist, rtext>>

ScanR == clock <= ResolveRuns /\ Scan

IndexR == clock <= ResolveRuns /\ Index

NextResolve == Chmod \/ ScanR \/ IndexR \/ Resolve \/ ExplainExit

SpecResolve == InitResolve /\ [][NextResolve]_vars


(***************************************************************************)
(* Properties of the indexing pipeline.                                    *)
(***************************************************************************)
\* Recent(1) is the last run, Recent(2) the one before it, ...
Recent(k) == hist[Len(hist) + 1 - k]

ScanStep == clock' = clock + 1 /\ Last(hist').op = "scan"

IndexStep == clock' = clock + 1 /\ Last(hist').op = "index"

TagsOfFile(tg, id) == {t \in tg : t.file_id = id}

ChunksOfFile(cs, id) == {c \in cs : c.file_id = id}

Unreadable(p) == ~read_text_sanitized(fs[p]).ok

\* C1: after scan, index, index with no change to the source tree in
\* between, the second index leaves every Tag row, every Chunk row and
\* every file's indexed digest as the first index left them.
C1_IndexTwiceIdentical ==
    [][(/\ IndexStep
        /\ Len(hist) >= 2
        /\ Recent(1).op = "index" /\ Recent(1).result \in {"ok", "noop"}
        /\ Recent(2).op = "scan"
        /\ Recent(1).ns = namespace /\ Recent(2).ns = namespace)
       => /\ tags' = tags
          /\ chunks' = chunks
          /\ {r.id : r \in files'} = {r.id : r \in files}
          /\ \A r \in files : RowOf(files', r.id).indexed_sha = r.indexed_sha]_vars

C1_Witness ==
    /\ Len(hist) >= 3
    /\ Recent(3).op = "scan"
    /\ Recent(2).op = "index" /\ Recent(2).result = "ok" /\ Recent(2).rebuilt # {}
    /\ Recent(1).op = "index"
    /\ tags # {} /\ chunks # {}

\* C2: from a state where every file is indexed and only file X has changed
\* since, scan changes only X's digest and makes the pending set {X}; the
\* index that follows leaves every other file's indexed digest, tags and
\* chunks unchanged.
C2_DirtyDetection ==
    [][/\ \A x \in Paths :
            (ScanStep /\ CleanExcept(namespace, x))
            => /\ \A r \in files : r.namespace = namespace =>
                     ((RowOf(files', r.id).sha # r.sha) <=> (r.path = x))
               /\ PendingPathsOf(files', namespace) = {x}
       /\ \A x \in Paths :
            (IndexStep /\ Len(hist) >= 1 /\ Recent(1).op = "scan" /\ Recent(1).dirty = {x})
            => \A r \in files : r.path # x =>
                  /\ RowOf(files', r.id).indexed_sha = r.indexed_sha
                  /\ TagsOfFile(tags', r.id) = TagsOfFile(tags, r.id)
                  /\ ChunksOfFile(chunks', r.id) = ChunksOfFile(chunks, r.id)]_vars

C2_Witness ==
    /\ Len(hist) >= 2
    /\ Recent(2).op = "scan"
    /\ Recent(1).op = "index" /\ Recent(1).result = "ok"
    /\ \E x \in Paths :
          /\ Recent(2).dirty = {x}
          /\ Recent(1).pending = {x} /\ Recent(1).rebuilt = {x}
          /\ \E r \in files : r.path # x /\ TagsOfFile(tags, r.id) # {}
                              /\ ChunksOfFile(chunks, r.id) # {}

\* C3: when the tagger cannot be started or exits non-zero, index fails and
\* the store is as before the run: no Tag or Chunk row deleted or inserted,
\* no file's indexed digest or indexed time set.
C3_TaggerFailureLeavesStore ==
    [][(IndexStep /\ Last(hist').tagger \in {"spawn_failed", "exit_nonzero"})
       => /\ Last(hist').result = "tagger_failed"
          /\ files' = files /\ tags' = tags /\ chunks' = chunks /\ fts' = fts]_vars

C3_Witness ==
    /\ Len(hist) >= 2
    /\ Recent(1).op = "index" /\ Recent(1).tagger = "exit_nonzero"
    /\ Recent(1).result = "tagger_failed" /\ Recent(1).pending # {}
    /\ tags # {}

\* C4: a pending file whose text cannot be read does not fail the run: the
\* run succeeds, every other pending file is rebuilt and marked indexed, and
\* the unreadable file is untouched and still pending.
C4_UnreadableFileSkipped ==
    [][(/\ IndexStep
        /\ Last(hist').tagger = "ok"
        /\ \E p \in PendingPaths(namespace) : Unreadable(p))
       => /\ Last(hist').result = "ok"
          /\ \A r \in files : (r.namespace = namespace /\ IsPending(r)) =>
                LET q == RowOf(files', r.id) IN
                IF Unreadable(r.path)
                THEN /\ q = r /\ IsPending(q)
                     /\ TagsOfFile(tags', r.id) = TagsOfFile(tags, r.id)
                ELSE /\ q.indexed_sha = Some(r.sha) /\ q.indexed_at = Some(clock)
                     /\ ~IsPending(q)
                     /\ r.path \in Last(hist').rebuilt]_vars

C4_Witness ==
    /\ Len(hist) >= 1
    /\ Recent(1).op = "index" /\ Recent(1).result = "ok"
    /\ Recent(1).skipped # {} /\ Recent(1).rebuilt # {}
    /\ \E r \in files : r.path \in Recent(1).skipped /\ IsPending(r)
    /\ \E r \in files : r.path \in Recent(1).rebuilt /\ TagsOfFile(tags, r.id) # {}

Q == res.query

Out == res.out

\* The (file, lineRange) pair of the query, when both are given.
HasPair == IsSome(Q.file) /\ IsSome(Q.lines)

\* What the lineRange argument of the query denotes.
RangeCase == CHOOSE c \in RangeCases : c.text = Unwrap(Q.lines)

SymbolQuery == res.called /\ IsSome(Q.symbol)

Matches == SymbolCandidates(namespace, Unwrap(Q.symbol))

\* The order the specification gives: unscoped tags before scoped tags, then
\* path ascending, then line ascending.
UnscopedFirstKey(t) ==
    <<IF t.scope = None THEN 0 ELSE 1, PathRank(RowOf(files, t.file_id).path), t.line>>

Describes(target, t) ==
    /\ target.path = RowOf(files, t.file_id).path
    /\ target.name = t.name
    /\ target.fqn = (IF IsSome(t.scope) THEN Some(Fqn(Unwrap(t.scope), t.name)) ELSE None)
    /\ target.begin_line = t.line

\* C6: among the tags whose name is the short name or whose scope::name is
\* the symbol, resolve returns the first in the order unscoped before
\* scoped, then path, then line: with an unscoped run and a scoped
\* Worker::run, resolving run returns the unscoped one.
C6_UnscopedFirst ==
    (SymbolQuery /\ Matches # {} /\ Out.kind = "target")
    => \E t \in Matches :
          /\ \A u \in Matches : KeyLeq(UnscopedFirstKey(t), UnscopedFirstKey(u))
          /\ Describes(Out.target, t)

\* C7: when a symbol is given and no tag of the namespace matches it,
\* resolve fails as not found whatever file and lineRange are, and returns
\* no Target from another branch of the query.
C7_UnmatchedSymbolNoTarget ==
    (SymbolQuery /\ Matches = {}) => Out.kind # "target"

\* C8: with neither a symbol nor a (file, lineRange) pair resolve returns
\* the "no target requested" outcome, and a requested symbol or file that
\* is not found gives an outcome different from it.
C8_NotRequestedDistinct ==
    /\ (res.called /\ ~IsSome(Q.symbol) /\ ~HasPair) => Out = OkNone
    /\ (SymbolQuery /\ Matches = {}) => Out # OkNone
    /\ (res.called /\ ~IsSome(Q.symbol) /\ HasPair /\ RangeCase.wf
        /\ FileRow(namespace, Unwrap(Q.file)) = {}) => Out # OkNone

\* The (file, "A:B") query without symbol on a catalogued, readable file.
RangeQuery ==
    /\ res.called /\ ~IsSome(Q.symbol) /\ HasPair /\ RangeCase.wf
    /\ FileRow(namespace, Unwrap(Q.file)) # {}
    /\ ~Unreadable(Unwrap(Q.file))

TagsAbove ==
    {t \in tags : /\ t.file_id \in {r.id : r \in FileRow(namespace, Unwrap(Q.file))}
                  /\ t.line <= RangeCase.lo}

\* The end-line fallback as the specification defines it: the smallest tag
\* line of the file above `line`, minus one; else the file's line count.
EndLineFallback(path, line) ==
    LET later == {t.line : t \in {u \in tags :
                      /\ u.file_id \in {r.id : r \in FileRow(namespace, path)}
                      /\ u.line > line}}
    IN IF later # {} THEN SetMin(later) - 1
       ELSE Len(Lines(read_text_sanitized(fs[path]).text))

\* C9: for a (file, "A:B") query on a file with a tag at or above line A,
\* the Target begins at the greatest tag line <= A and ends at
\* max(B, end-line fallback of that tag).
C9_RangeThroughTag ==
    (RangeQuery /\ TagsAbove # {})
    => LET line == SetMax({t.line : t \in TagsAbove}) IN
       /\ Out.kind = "target"
       /\ Out.target.begin_line = line
       /\ Out.target.end_line = MaxOf(RangeCase.hi, EndLineFallback(Unwrap(Q.file), line))

\* C10 as stated: a lineRange that is not two colon-separated integers
\* makes resolve fail with a parse error, whatever else is asked; a
\* well-formed one is reordered to (min, max).
C10_MalformedRangeAlwaysFails ==
    (res.called /\ IsSome(Q.lines))
    => /\ ~RangeCase.wf => (Out.kind = "err" /\ Out.err = "parse")
       /\ IsSome(Out.range) => Out.range = Some(<<RangeCase.lo, RangeCase.hi>>)

\* C10, amended: when no symbol is given and file and lineRange both are,
\* a lineRange that is not two colon-separated integers makes resolve fail
\* with a parse error and no Target; a well-formed "A:B" is taken as
\* (min(A,B), max(A,B)).  When file is absent, or a given symbol matches a tag,
\* lineRange is not parsed.
C10_RangeBranchParses ==
    /\ (res.called /\ ~IsSome(Q.symbol) /\ HasPair)
       => IF RangeCase.wf
          THEN /\ Out.range = Some(<<RangeCase.lo, RangeCase.hi>>)
               /\ ~(Out.kind = "err" /\ Out.err = "parse")
          ELSE Out = Err("parse", None)
    /\ (res.called /\ (~IsSome(Q.file) \/ (IsSome(Q.symbol) /\ Matches # {})))
       => /\ Out.range = None
          /\ ~(Out.kind = "err" /\ Out.err = "parse")

C10_Witness ==
    /\ res.called /\ ~IsSome(Q.symbol) /\ HasPair
    /\ ~RangeCase.wf
    /\ Out.kind = "err" /\ Out.err = "parse"
    /\ \E r \in FileRow(namespace, Unwrap(Q.file)) : TagsOfFile(tags, r.id) # {}


(***************************************************************************)
(* The sanitizer over arbitrary file contents.                             *)
(***************************************************************************)
\* Longest file content of the sanitizer's universe.
MaxBytes == 4

\* 'A', '\n', 0xFF (never valid), and 0xC3 0xA9, which in this order are
\* the UTF-8 encoding of U+00E9.
ByteAlphabet == {65, LF, 255, 195, 169}

ByteSeqs == UNION {[1..n -> ByteAlphabet] : n \in 0..MaxBytes}

InitSanitize ==
    /\ fs \in {[p \in Paths |-> IF p = "a.cpp" THEN InitFile(c) ELSE NoFile] : c \in ByteSeqs}
    /\ namespace = "n1"
    /\ files = {} /\ tags = {} /\ chunks = {} /\ fts = {}
    /\ clock = 1
    /\ edits = 0
    /\ hist = <<>>
    /\ res = NoRes
    /\ rtext = NoRead
    /\ facts = NoFacts
    /\ tx = NoTx

\* A command reads a source file through read_text_sanitized.
ReadText ==
    /\ ~rtext.called
    /\ \E p \in Paths :
        /\ fs[p].present
        /\ rtext' = [called |-> TRUE, path |-> p, out |-> read_text_sanitized(fs[p])]
    /\ UNCHANGED <<tx, fs, namespace, files, tags, chunks, fts, clock, edits, hist, res, facts>>

\* The text has been consumed.
ReadDone ==
    /\ rtext.called
    /\ rtext' = NoRead
    /\ UNCHANGED <<tx, fs, namespace, files, tags, chunks, fts, clock, edits, hist, res, facts>>

NextSanitize == Chmod \/ ReadText \/ ReadDone

SpecSanitize == InitSanitize /\ [][NextSanitize]_vars

\* The sanitization as specified: well-formed UTF-8 sequences are copied,
\* and each maximal run of bytes that start no well-formed sequence becomes
\* one "???".
RECURSIVE MarkInvalidRuns(_, _, _)
MarkInvalidRuns(bytes, i, in_run) ==
    IF i > Len(bytes) THEN <<>>
    ELSE LET n == Utf8SeqLen(bytes, i) IN
         IF n = 0
         THEN (IF in_run THEN <<>> ELSE <<QMARK, QMARK, QMARK>>)
              \o MarkInvalidRuns(bytes, i + 1, TRUE)
         ELSE SubSeq(bytes, i, i + n - 1) \o MarkInvalidRuns(bytes, i + n, FALSE)

\* C11: reading a readable file never fails, and the text read is the
\* file's bytes with each maximal run of invalid bytes replaced by exactly
\* one "???" and all valid text kept unchanged and in order.
C11_InvalidRunsCollapsed ==
    [][(rtext'.called /\ ~rtext.called /\ fs[rtext'.path].readable)
       => /\ rtext'.out.ok
          /\ rtext'.out.text = MarkInvalidRuns(fs[rtext'.path].bytes, 1, FALSE)]_vars


(***************************************************************************)
(* The chunks table and its text-search index under the statements a       *)
(* client of the store can issue, next to the runs of scan and index.      *)
(***************************************************************************)
\* Largest rowid a directly inserted chunk row gets.
MaxRowId == 4

\* "x\n"
StmtTexts == {<<120, LF>>}

\* INSERT INTO chunks(...)
ChunkInsert ==
    /\ NextId(chunks) <= MaxRowId
    /\ \E r \in files, text \in StmtTexts :
        LET ins == InsertChunk(chunks, fts,
                       [id |-> NextId(chunks), file_id |-> r.id, kind |-> "block",
                        symbol |-> None, begin_line |-> 1, end_line |-> 1,
                        sha |-> sha256_str(text), mtime |-> r.mtime, text |-> text])
        IN chunks' = ins.chunks /\ fts' = ins.fts
    /\ UNCHANGED <<tx, fs, namespace, files, tags, clock, edits, hist, res, rtext, facts>>

\* DELETE FROM chunks WHERE file_id=?1
ChunkDelete ==
    /\ \E f \in {c.file_id : c \in chunks} :
        LET del == DeleteChunks(chunks, fts, f)
        IN chunks' = del.chunks /\ fts' = del.fts
    /\ UNCHANGED <<tx, fs, namespace, files, tags, clock, edits, hist, res, rtext, facts>>

\* UPDATE chunks SET text=?1 WHERE id=?2
ChunkUpdate ==
    /\ \E c \in chunks, text \in StmtTexts :
        /\ c.text # text
        /\ LET upd == UpdateChunkText(chunks, fts, c.id, text)
           IN chunks' = upd.chunks /\ fts' = upd.fts
    /\ UNCHANGED <<tx, fs, namespace, files, tags, clock, edits, hist, res, rtext, facts>>

NextStore == ScanR \/ IndexR \/ ChunkInsert \/ ChunkDelete \/ ChunkUpdate

SpecStore == Init /\ [][NextStore]_vars

\* C12: whatever chunk inserts, deletes and text updates were made, the
\* text-search index holds exactly one entry per Chunk row, keyed by the
\* chunk's id and carrying its current text, and no entry of a deleted chunk.
C12_ShadowIndexConsistent ==
    /\ fts = {[rowid |-> c.id, text |-> c.text] : c \in chunks}
    /\ Cardinality(fts) = Cardinality(chunks)

\* A chunk that index inserted in its last run and whose text was updated
\* since.
C12_Witness ==
    /\ \E c \in chunks :
          /\ c.sha # sha256_str(c.text)
          /\ c.kind # "block"
          /\ [rowid |-> c.id, text |-> c.text] \in fts
    /\ Len(hist) >= 2
    /\ Recent(1).op = "index" /\ Recent(1).rebuilt # {}
    /\ Recent(2).op = "scan"


(***************************************************************************)
(* explain: the Target is resolved, then its sections are assembled.       *)
(***************************************************************************)
\* --window
WindowInputs == {0, 1}

InitExplain ==
    /\ fs \in {f \in [Paths -> {InitFile(c) : c \in Contents \cup {TextCode}}] :
                  f["b.cpp"].bytes \in {TextLf, TextCrlf}}
    /\ namespace = "n1"
    /\ files = {} /\ tags = {} /\ chunks = {} /\ fts = {}
    /\ clock = 1
    /\ edits = 0
    /\ hist = <<>>
    /\ res = NoRes
    /\ rtext = NoRead
    /\ facts = NoFacts
    /\ tx = NoTx

\* explain::run builds the sections of the Target it resolved.
Assemble ==
    /\ res.called /\ res.out.kind = "target"
    /\ ~facts.called
    /\ \E win \in WindowInputs :
        \E out \in assemble(namespace, res.out.target, win) :
            facts' = [called |-> TRUE, window |-> win, out |-> out]
    /\ UNCHANGED <<tx, fs, namespace, files, tags, chunks, fts, clock, edits, hist, res, rtext>>

NextExplain == Chmod \/ ScanR \/ IndexR \/ Resolve \/ Assemble \/ ExplainExit

SpecExplain == InitExplain /\ [][NextExplain]_vars

SectionsOf(out) ==
    {out.decl_def, out.class_type, out.pp, out.callees, out.usage, out.comments}

\* C13: assembling the sections of a resolved Target never returns an
\* error, whatever a section could not read or find, and no section is the
\* empty string: a section with nothing to report is the placeholder "—".
C13_SectionsBestEffort ==
    facts.called => (facts.out.ok /\ <<>> \notin SectionsOf(facts.out))


(***************************************************************************)
(* Properties of scan and of the chunks index derives.                     *)
(***************************************************************************)
\* What scan reads of a file: size, mtime, digest, language, document kind.
Scanned(r) == <<r.size, r.mtime, r.sha, r.lang_guess, r.doc_kind>>

\* C14: every scan leaves at most one File row per (namespace, path); for
\* a path already catalogued it overwrites size, mtime, digest, language,
\* document kind and seen-time of the existing row and adds no row; and a
\* scan that follows a scan with no file change in between leaves digest,
\* size, mtime, language and document kind of every row as they were.
C14_ScanUpsert ==
    [][ScanStep =>
        /\ \A ns \in Namespaces, p \in Paths :
              Cardinality({r \in files' : r.namespace = ns /\ r.path = p}) <= 1
        /\ \A r \in files : \E r2 \in files' :
              r2.id = r.id /\ r2.namespace = r.namespace /\ r2.path = r.path
        /\ Cardinality(files') =
              Cardinality(files)
              + Cardinality({p \in Paths : fs[p].present /\ FileRow(namespace, p) = {}})
        /\ \A p \in Paths : fs[p].present =>
              \E r2 \in files' :
                  /\ r2.namespace = namespace /\ r2.path = p
                  /\ Scanned(r2) = <<Len(fs[p].bytes), fs[p].mtime, ScanSha(p),
                                     guess_lang(p), classify_doc(p)>>
                  /\ r2.seen_at = clock
        /\ (Len(hist) >= 1 /\ Recent(1).op = "scan") =>
              \A r2 \in files' : \E r \in files :
                  r.id = r2.id /\ Scanned(r) = Scanned(r2)]_vars

\* Two scans in a row, the first of which overwrote the row of a file that
\* had been indexed with another content.
C14_Witness ==
    /\ Len(hist) >= 2
    /\ Recent(1).op = "scan" /\ Recent(2).op = "scan"
    /\ \E r \in files :
          /\ IsSome(r.indexed_sha) /\ Unwrap(r.indexed_sha) # r.sha
          /\ r.seen_at = clock - 1


\* C15: when no file of the namespace is pending (indexed digest absent or
\* different from the digest), index succeeds as a no-op: it returns before
\* the tagger is run, however the tagger would have ended, and leaves the
\* store as it was.
C15_EmptyPendingNoop ==
    [][(IndexStep /\ \A r \in files : r.namespace = namespace =>
                        (IsSome(r.indexed_sha) /\ Unwrap(r.indexed_sha) = r.sha))
       => /\ Last(hist').result = "noop"
          /\ store' = store]_vars

\* An index run that was a no-op over a store that holds indexed files.
C15_Witness ==
    /\ Len(hist) >= 1
    /\ Recent(1).op = "index" /\ Recent(1).result = "noop"
    /\ chunks # {}
    /\ \E r \in files : r.namespace = namespace /\ IsSome(r.indexed_sha)


\* The rows of a table in the order they were inserted (ascending rowid).
RECURSIVE SeqById(_)
SeqById(rows) ==
    IF rows = {} THEN <<>>
    ELSE LET first == CHOOSE r \in rows : \A q \in rows : r.id <= q.id
         IN <<first>> \o SeqById(rows \ {first})

\* The number of lines of a file as index reads it.
LineCount(p) == Len(Lines(read_text_sanitized(fs[p]).text))

\* The end line of the chunk of the i-th tag of a sorted tag list: the
\* declared end, else the next tag's line - 1 but never before the tag's own
\* line, else the line count, which is taken to be at least 1.
ClampedEnd(ts, i, total) ==
    IF IsSome(ts[i].end_line) THEN Unwrap(ts[i].end_line)
    ELSE IF i < Len(ts) THEN MaxOf(ts[i + 1].line - 1, ts[i].line)
    ELSE MaxOf(total, 1)

Bounds(cs) == {<<c.begin_line, c.end_line>> : c \in cs}

\* The chunk boundaries a rule End gives for a sorted tag list: one chunk
\* per tag, those with begin <= 0 or end < begin left out.
BoundsBy(End(_, _, _), ts, total) ==
    {<<ts[i].line, End(ts, i, total)>> :
        i \in {j \in 1..Len(ts) : ts[j].line >= 1 /\ End(ts, j, total) >= ts[j].line}}

\* A file that the step rebuilt.
RebuiltRows == {r \in files' : r.path \in Last(hist').rebuilt /\ r.namespace = namespace}

\* C16 as stated: after index rebuilds a file, its chunks are those of its
\* tags sorted by line, begin = tag.line and end = the declared end line,
\* else the next tag's line - 1, else the file's line count.
C16_BoundaryRuleAsStated ==
    [][IndexStep =>
        LET StatedEnd(ts, i, total) ==
                IF IsSome(ts[i].end_line) THEN Unwrap(ts[i].end_line)
                ELSE IF i < Len(ts) THEN ts[i + 1].line - 1
                ELSE total
        IN \A r \in RebuiltRows :
                Bounds(ChunksOfFile(chunks', r.id))
                  = BoundsBy(StatedEnd, SeqById(TagsOfFile(tags', r.id)), LineCount(r.path))]_vars

\* C16, amended: end = the declared end line, else max(tag.line, next tag's
\* line - 1) when a tag follows in the sorted list, else max(1, line count).
C16_BoundaryRule ==
    [][IndexStep =>
        \A r \in RebuiltRows :
            Bounds(ChunksOfFile(chunks', r.id))
              = BoundsBy(ClampedEnd, SeqById(TagsOfFile(tags', r.id)), LineCount(r.path))]_vars

\* A rebuilt file with a chunk that ends right before the next tag and a
\* last chunk that ends at the file's last line.
C16_Witness ==
    /\ Len(hist) >= 1 /\ Recent(1).op = "index"
    /\ \E p \in Recent(1).rebuilt : \E r \in FileRow(Recent(1).ns, p) :
          \E c1, c2 \in ChunksOfFile(chunks, r.id) :
              /\ c1.end_line + 1 = c2.begin_line
              /\ c1.begin_line < c2.begin_line
              /\ c2.end_line = LineCount(p)
              /\ \A t \in TagsOfFile(tags, r.id) : t.end_line = None


\* C17: every chunk in the store has 1 <= begin_line <= end_line; a derived
\* chunk with begin <= 0 or end < begin is never stored.
C17_ChunksWellFormed ==
    \A c \in chunks : 1 <= c.begin_line /\ c.begin_line <= c.end_line

\* A tag was stored whose derived chunk is malformed (line 0, or a declared
\* end before its line), and the file has chunks but none for that tag.
C17_Witness ==
    \E t \in tags :
        /\ t.line <= 0 \/ (IsSome(t.end_line) /\ Unwrap(t.end_line) < t.line)
        /\ ChunksOfFile(chunks, t.file_id) # {}
        /\ \A c \in ChunksOfFile(chunks, t.file_id) : c.begin_line # t.line


\* The records the tagger printed in this run, in output order.
RunRecords ==
    LET pending == pending_files(namespace)
        out == TaggerStdout([i \in 1..Len(pending) |-> pending[i].rel_path])
    IN SelectSeqP(out, {l \in {out[i] : i \in 1..Len(out)} : l.parses}, 1)

\* The columns of a Tag row that come from the tagger's record.
TagColumns(t) ==
    [name |-> t.name, kind |-> t.kind, line |-> t.line, end_line |-> t.end_line,
     scope |-> t.scope, scope_kind |-> t.scope_kind, signature |-> t.signature,
     lang |-> t.lang]

\* The same columns as the insert binds them from a record.
RecordColumns(t) ==
    [name |-> t.name, kind |-> t.kind, line |-> UnwrapOr(t.line, 0),
     end_line |-> t.end_line, scope |-> t.scope, scope_kind |-> t.scope_kind,
     signature |-> t.signature, lang |-> UnwrapOr(t.language, "")]

\* The file's Tag rows are one row per record of the path that Keep retains.
TagsReplacedBy(Keep(_), r) ==
    LET kept == SelectSeqP(RunRecords,
                    {t \in {RunRecords[i] : i \in 1..Len(RunRecords)} :
                        t.path = r.path /\ Keep(t)}, 1)
        rows == TagsOfFile(tags', r.id)
    IN /\ Cardinality(rows) = Len(kept)
       /\ {TagColumns(t) : t \in rows} = {RecordColumns(kept[i]) : i \in 1..Len(kept)}

\* The file's Chunk rows are those derived in this run: one per tag row with
\* well-formed bounds, each with the text the file has now.
ChunksReplaced(r) ==
    LET ts == SeqById(TagsOfFile(tags', r.id))
        total == LineCount(r.path)
        rows == ChunksOfFile(chunks', r.id)
    IN /\ Cardinality(rows)
            = Cardinality({i \in 1..Len(ts) : /\ ts[i].line >= 1
                                               /\ ClampedEnd(ts, i, total) >= ts[i].line})
       /\ \A c \in rows :
            /\ c.text = slice_text(read_text_sanitized(fs[r.path]).text,
                                   c.begin_line, c.end_line)
            /\ c.mtime = r.mtime

\* C18 as stated: after index rebuilds a file, its Tag rows are exactly one
\* row per record of its path whose kind is in the closed tag-kind set,
\* stored verbatim, and no Tag or Chunk row from before the run is left.
C18_FullReplaceAsStated ==
    [][IndexStep =>
        LET KindRetained(t) == t.kind \in RetainedKinds
        IN \A r \in RebuiltRows : TagsReplacedBy(KindRetained, r) /\ ChunksReplaced(r)]_vars

\* C18, amended: the retained records are those that carry a line and whose
\* kind is in the closed tag-kind set.
C18_FullReplace ==
    [][IndexStep =>
        \A r \in RebuiltRows : TagsReplacedBy(Retained, r) /\ ChunksReplaced(r)]_vars

\* a.cpp was indexed with its first content, rewritten afterwards, and the
\* last run rebuilt it: rows of the first content existed before that run.
C18_Witness ==
    /\ Len(hist) >= 1 /\ Recent(1).op = "index" /\ "a.cpp" \in Recent(1).rebuilt
    /\ edits = 1 /\ fs["a.cpp"].bytes # TextLf /\ fs["a.cpp"].readable
    /\ \E ra \in FileRow(namespace, "a.cpp"), rb \in FileRow(namespace, "b.cpp") :
          /\ IsSome(rb.indexed_at)
          /\ fs["a.cpp"].mtime > Unwrap(rb.indexed_at)
          /\ TagsOfFile(tags, ra.id) # {}
          /\ ChunksOfFile(chunks, ra.id) # {}


\* The two columns of a File row that record its indexing.
Indexed(r) == <<r.indexed_sha, r.indexed_at>>

\* C19: scan leaves indexed_sha and indexed_at of every existing File row as
\* they were and inserts rows with both absent; index writes them only for
\* the files it rebuilt, indexed_sha being the row's stored digest; no other
\* step touches them.
C19_IndexedColumnsFrame ==
    [][/\ ScanStep =>
            /\ \A r \in files : \E r2 \in files' : r2.id = r.id /\ Indexed(r2) = Indexed(r)
            /\ \A r2 \in files' :
                  (\A r \in files : r.id # r2.id) => Indexed(r2) = <<None, None>>
       /\ IndexStep =>
            /\ {r.id : r \in files'} = {r.id : r \in files}
            /\ \A r \in files : \A r2 \in files' : r2.id = r.id =>
                  IF r.namespace = namespace /\ r.path \in Last(hist').rebuilt
                  THEN Indexed(r2) = <<Some(r.sha), Some(clock)>> /\ r2.sha = r.sha
                  ELSE Indexed(r2) = Indexed(r)
       /\ ~(ScanStep \/ IndexStep) => files' = files]_vars

\* A scan ran over a file that was indexed before and has changed since:
\* its row keeps the digest and time of the indexing and a newer digest.
C19_Witness ==
    /\ Len(hist) >= 1 /\ Recent(1).op = "scan"
    /\ \E r \in files :
          /\ IsSome(r.indexed_sha) /\ IsSome(r.indexed_at)
          /\ r.seen_at > Unwrap(r.indexed_at)
          /\ Unwrap(r.indexed_sha) # r.sha
    /\ \E r \in files : r.indexed_sha = None


\* What the tagger prints in this run, for the pending batch.
RunStdout ==
    LET pending == pending_files(namespace)
    IN TaggerStdout([i \in 1..Len(pending) |-> pending[i].rel_path])

\* Outputs of the tagger that agree with out on the records of path p, in
\* their order, and differ in the lines that belong elsewhere: those removed,
\* reordered, moved, changed, or one more added.
OtherFileVariants(out, p) ==
    LET lines == {out[i] : i \in 1..Len(out)}
        own == SelectSeqP(out, {l \in lines : l.parses /\ l.path = p}, 1)
        other == SelectSeqP(out, {l \in lines : ~(l.parses /\ l.path = p)}, 1)
        changed == [i \in 1..Len(other) |->
                       [other[i] EXCEPT !.line = Some(1), !.end_line = None,
                                        !.kind = "function"]]
        added == CT("k", OtherPath(p), "function", Some(1), None, "")
    IN {out, own, Reverse(other) \o own, own \o other, changed \o own,
        <<added>> \o out, out \o <<added>>}

\* The chunk boundaries index::run stores for the file with rowid id when
\* the tagger prints out.
BoundsAfterRun(out, id) ==
    Bounds(ChunksOfFile(IndexRun(namespace, [status |-> "ok", stdout |-> out], clock).chunks,
                        id))

\* C20: the chunk boundaries index stores for a rebuilt file are those of
\* any run in which the tagger's records for the other files of the batch
\* are changed, added, removed or reordered, and of a second run over the
\* same output.
C20_ChunkingDeterministic ==
    [][(IndexStep /\ Last(hist').result = "ok") =>
        \A r \in RebuiltRows : \A out \in OtherFileVariants(RunStdout, r.path) :
            BoundsAfterRun(out, r.id) = Bounds(ChunksOfFile(chunks', r.id))]_vars

\* One run rebuilt both files, each got chunks, and the tagger printed
\* records of a.cpp both before and after those of b.cpp.
C20_Witness ==
    /\ Len(hist) >= 1 /\ Recent(1).op = "index" /\ Recent(1).result = "ok"
    /\ Recent(1).rebuilt = Paths
    /\ fs["b.cpp"].bytes = TextBin /\ fs["a.cpp"].bytes = TextLf
    /\ \A r \in files : ChunksOfFile(chunks, r.id) # {}
    /\ \E r \in FileRow(namespace, "a.cpp") : \E t \in TagsOfFile(tags, r.id) : t.name = <<"w">>


(***************************************************************************)
(* Further properties of the resolver.                                     *)
(***************************************************************************)
\* C21: a (file, "A:B") query resolved through a tag returns a Target that
\* covers the requested range, begin <= A and end >= B, whether or not the
\* tag has a declared end line.
C21_TargetCoversRange ==
    (RangeQuery /\ TagsAbove # {} /\ Out.kind = "target")
    => /\ Out.target.begin_line <= RangeCase.lo
       /\ Out.target.end_line >= RangeCase.hi


\* C22: a (file, "A:B") query on a catalogued file that has no tag with
\* line <= A returns the synthesized Target "<range>" of kind "block", with
\* no scope and no signature, begin = A and end = B; when the path is not in
\* the catalogue of the namespace, resolve fails instead.
C22_RangeFallback ==
    (res.called /\ ~IsSome(Q.symbol) /\ HasPair /\ RangeCase.wf)
    => IF FileRow(namespace, Unwrap(Q.file)) = {}
       THEN Out.kind = "err" /\ Out.err = "file not indexed"
       ELSE TagsAbove = {}
            => /\ Out.kind = "target"
               /\ Out.target.name = <<"<range>">> /\ Out.target.kind = "block"
               /\ Out.target.fqn = None /\ Out.target.signature = None
               /\ Out.target.path = Unwrap(Q.file)
               /\ Out.target.begin_line = RangeCase.lo
               /\ Out.target.end_line = RangeCase.hi

\* The queried file has tags, all of them below line A, and the Target is
\* the synthesized one.
C22_Witness ==
    /\ res.called /\ ~IsSome(Q.symbol) /\ HasPair /\ RangeCase.wf
    /\ \E r \in FileRow(namespace, Unwrap(Q.file)) :
          /\ TagsOfFile(tags, r.id) # {}
          /\ \A t \in TagsOfFile(tags, r.id) : t.line > RangeCase.lo
    /\ RangeCase.lo >= 1
    /\ Out.kind = "target" /\ Out.target.name = <<"<range>">>


(***************************************************************************)
(* Further properties of the assembler.                                    *)
(***************************************************************************)
\* C23: the preceding-comments section scans upward from the line
\* immediately above the Target's begin line, the begin line itself never
\* included, collects one contiguous run of comment lines, stops at the
\* first line that is no comment once a comment line is collected, and
\* returns the collected lines in source order.
C23_CommentsAboveTarget ==
    (facts.called /\ facts.out.ok)
    => LET tgt == res.out.target
           ls == Lines(read_text_sanitized(fs[tgt.path]).text)
           above == SubSeq(ls, 1, MinOf(tgt.begin_line - 1, Len(ls)))
           run == Reverse(CollectComments(Reverse(above), 1, <<>>))
       IN facts.out.comments = (IF run = <<>> THEN Dash ELSE Join(run, <<LF>>))


(***************************************************************************)
(* index::run statement by statement: the writes of the run go to the      *)
(* connection's open transaction and reach the store at tx.commit().  A    *)
(* reader on another connection (explain) reads files, tags and chunks.    *)
(***************************************************************************)
\* The clock a second later; it stops at MaxClock.
Tick == IF clock < MaxClock THEN clock + 1 ELSE clock

\* Dropping the transaction without commit: the store stays as it was.
RollbackKeepsWrites(t) == <<t.s.files, t.s.tags, t.s.chunks, t.s.fts>>

Rollback(t) == store

\* tx.commit(): the store becomes what the transaction wrote.
Commit(t) == <<t.s.files, t.s.tags, t.s.chunks, t.s.fts>>

\* The pending file the loop is at.
TxFile == tx.pending[tx.i]

\* conn.transaction(), after pending_files found work and the tagger ran.
TxBegin ==
    /\ ~tx.open
    /\ \E pending \in {pending_files(namespace)} :
          /\ pending # <<>>
          /\ \E out \in {TaggerStdout([i \in 1..Len(pending) |-> pending[i].rel_path])} :
             \E ct \in {run_ctags([status |-> "ok", stdout |-> out])} :
                tx' = [open |-> TRUE, phase |-> "read", i |-> 1, pending |-> pending,
                       ctags |-> ct.tags, now |-> clock, text |-> <<>>,
                       s |-> [files |-> files, tags |-> tags, chunks |-> chunks, fts |-> fts,
                              rebuilt |-> {}, skipped |-> {}, aborted |-> FALSE]]
    /\ UNCHANGED <<fs, namespace, files, tags, chunks, fts, clock, edits, hist, res, rtext, facts>>

\* read_text_sanitized of the pending file: on failure warn and continue.
TxRead ==
    /\ tx.open /\ tx.phase = "read" /\ tx.i <= Len(tx.pending)
    /\ LET rd == read_text_sanitized(fs[TxFile.rel_path]) IN
       tx' = IF rd.ok THEN [tx EXCEPT !.phase = "delete", !.text = rd.text]
             ELSE [tx EXCEPT !.s = ReadFailed(tx.s, TxFile), !.i = @ + 1]
    /\ UNCHANGED <<fs, namespace, files, tags, chunks, fts, clock, edits, hist, res, rtext, facts>>

\* del_tags.execute, del_chunks.execute
TxDelete ==
    /\ tx.open /\ tx.phase = "delete"
    /\ LET del == DeleteChunks(tx.s.chunks, tx.s.fts, TxFile.id) IN
       tx' = [tx EXCEPT !.phase = "insert",
                        !.s.tags = {t \in tx.s.tags : t.file_id # TxFile.id},
                        !.s.chunks = del.chunks, !.s.fts = del.fts]
    /\ UNCHANGED <<fs, namespace, files, tags, chunks, fts, clock, edits, hist, res, rtext, facts>>

\* ins_tag.execute for each tag of the file, ins_chunk.execute for each chunk
TxInsert ==
    /\ tx.open /\ tx.phase = "insert"
    /\ \E ftags \in {ByPath(tx.ctags, TxFile.rel_path)} :
       \E total_lines \in {MaxOf(Len(Lines(tx.text)), 1)} :
       \E specs \in {build_chunks_v1(ftags, total_lines)} :
       \E tg \in {InsertTags(tx.s.tags, TxFile.id, ftags, 1)} :
       \E ins \in {InsertChunks([chunks |-> tx.s.chunks, fts |-> tx.s.fts], TxFile, tx.text,
                                specs, 1)} :
          tx' = [tx EXCEPT !.phase = "mark", !.s.tags = tg,
                           !.s.chunks = ins.chunks, !.s.fts = ins.fts]
    /\ UNCHANGED <<fs, namespace, files, tags, chunks, fts, clock, edits, hist, res, rtext, facts>>

TxMarkSkipUntagged ==
    /\ tx.open /\ tx.phase = "mark"
    /\ tx' = [tx EXCEPT !.phase = "read", !.i = @ + 1, !.text = <<>>,
                        !.s.files = {IF r.id = TxFile.id
                                        /\ \E t \in tx.s.tags : t.file_id = r.id
                                     THEN [r EXCEPT !.indexed_sha = Some(TxFile.sha),
                                                    !.indexed_at = Some(tx.now)]
                                     ELSE r : r \in tx.s.files},
                        !.s.rebuilt = @ \cup {TxFile.rel_path}]
    /\ UNCHANGED <<fs, namespace, files, tags, chunks, fts, clock, edits, hist, res, rtext, facts>>

\* upd_file.execute: the file is marked indexed.
TxMark ==
    /\ tx.open /\ tx.phase = "mark"
    /\ tx' = [tx EXCEPT !.phase = "read", !.i = @ + 1, !.text = <<>>,
                        !.s.files = {IF r.id = TxFile.id
                                     THEN [r EXCEPT !.indexed_sha = Some(TxFile.sha),
                                                    !.indexed_at = Some(tx.now)]
                                     ELSE r : r \in tx.s.files},
                        !.s.rebuilt = @ \cup {TxFile.rel_path}]
    /\ UNCHANGED <<fs, namespace, files, tags, chunks, fts, clock, edits, hist, res, rtext, facts>>

\* tx.commit() after the loop.
TxCommit ==
    /\ tx.open /\ tx.phase = "read" /\ tx.i > Len(tx.pending)
    /\ files' = Commit(tx)[1] /\ tags' = Commit(tx)[2]
    /\ chunks' = Commit(tx)[3] /\ fts' = Commit(tx)[4]
    /\ clock' = Tick
    /\ hist' = Push(hist, Event("index", namespace, "ok", "ok",
                                {tx.pending[i].rel_path : i \in 1..Len(tx.pending)},
                                tx.s.rebuilt, tx.s.skipped, {}))
    /\ tx' = NoTx
    /\ UNCHANGED <<fs, namespace, edits, res, rtext, facts>>

\* A statement of the run fails in the store: `?` returns the error and the
\* transaction is dropped.
TxStoreError ==
    /\ tx.open /\ tx.phase \in {"delete", "insert", "mark"}
    /\ files' = Rollback(tx)[1] /\ tags' = Rollback(tx)[2]
    /\ chunks' = Rollback(tx)[3] /\ fts' = Rollback(tx)[4]
    /\ clock' = Tick
    /\ hist' = Push(hist, Event("index", namespace, "aborted", "ok",
                                {tx.pending[i].rel_path : i \in 1..Len(tx.pending)},
                                {}, {}, {}))
    /\ tx' = NoTx
    /\ UNCHANGED <<fs, namespace, edits, res, rtext, facts>>

\* scan on its own connection: it cannot write while index holds the lock.
ScanT == ~tx.open /\ Scan

\* index is started while the clock runs.
TxBeginT == clock < MaxClock /\ TxBegin

NextTx ==
    \/ Chmod \/ ScanT \/ TxBeginT \/ TxRead \/ TxDelete \/ TxInsert \/ TxMark
    \/ TxCommit \/ TxStoreError \/ Resolve \/ ExplainExit

SpecTx == Init /\ [][NextTx]_vars

\* C24: the writes of an index run become visible at once: the store that
\* other connections read changes only when the run commits, to the state
\* in which every pending file was either rebuilt whole or skipped; while
\* the run is under way, and after a run that fails on a store error, it
\* is the store from before the run.
C24_IndexRunAtomic ==
    [][\/ store' = store
       \/ ScanStep /\ ~tx.open
       \/ /\ tx.open /\ ~tx'.open
          /\ tx.phase = "read" /\ tx.i > Len(tx.pending)
          /\ \A k \in 1..Len(tx.pending) :
                tx.pending[k].rel_path \in tx.s.rebuilt \cup tx.s.skipped
          /\ store' = <<tx.s.files, tx.s.tags, tx.s.chunks, tx.s.fts>>]_vars

\* A run has deleted the tags and chunks of a file it is rebuilding and not
\* yet inserted the new ones, and a reader resolved a Target from the tags
\* the store still shows for that file.
C24_Witness ==
    /\ tx.open /\ tx.phase = "insert"
    /\ TagsOfFile(tx.s.tags, TxFile.id) = {}
    /\ TagsOfFile(tags, TxFile.id) # {}
    /\ ChunksOfFile(chunks, TxFile.id) # {}
    /\ res.called /\ res.out.kind = "target" /\ res.out.target.path = TxFile.rel_path


(***************************************************************************)
(* Further properties of the indexing pipeline.                            *)
(***************************************************************************)
\* C25: when a pending file cannot be read during index, the run leaves the
\* file's Tag rows, Chunk rows, indexed-digest and indexed-time as they
\* were before the run, and the file stays pending.
C25_UnreadableKeepsIndexedData ==
    [][(IndexStep /\ Last(hist').result = "ok")
       => \A r \in files :
            (r.namespace = namespace /\ IsPending(r) /\ Unreadable(r.path))
            => /\ r \in files' /\ IsPending(r)
               /\ r.path \in Last(hist').skipped
               /\ TagsOfFile(tags', r.id) = TagsOfFile(tags, r.id)
               /\ ChunksOfFile(chunks', r.id) = ChunksOfFile(chunks, r.id)
               /\ \A c \in ChunksOfFile(chunks, r.id) :
                     [rowid |-> c.id, text |-> c.text] \in fts']_vars

\* A file that was indexed, then became unreadable, was scanned and was
\* skipped by the last run: it is pending and has the tags and chunks of
\* its indexing.
C25_Witness ==
    /\ Len(hist) >= 1 /\ Recent(1).op = "index" /\ Recent(1).result = "ok"
    /\ \E r \in files :
          /\ r.path \in Recent(1).skipped /\ Unreadable(r.path)
          /\ IsSome(r.indexed_sha) /\ IsSome(r.indexed_at) /\ IsPending(r)
          /\ TagsOfFile(tags, r.id) # {} /\ ChunksOfFile(chunks, r.id) # {}


\* C26: whenever a file is not pending, its stored chunks were sliced from
\* content whose digest is the file's indexed-digest, however modifications
\* of the file interleave with scan and index.  (The digest of the model
\* carries the content it was computed from behind its first element.)
C26_ChunksMatchIndexedDigest ==
    \A r \in files : ~IsPending(r) =>
        \A c \in ChunksOfFile(chunks, r.id) :
            /\ r.sha # <<>>
            /\ c.text = slice_text(read_text_sanitized(InitFile(Tail(r.sha))).text,
                                 c.begin_line, c.end_line)


(***************************************************************************)
(* scan and index run again and again over a tree whose files stay         *)
(* readable and are rewritten a bounded number of times; the tagger        *)
(* succeeds and the store does not fail.                                   *)
(***************************************************************************)
\* scan::run, at any time no index run holds the store
ScanL ==
    /\ ~tx.open
    /\ files' = ScanWalk(files, namespace, 1, clock)
    /\ clock' = Tick
    /\ hist' = Push(hist, Event("scan", namespace, "ok", "not_run", PendingPaths(namespace),
                                {}, {}, {x \in Paths : CleanExcept(namespace, x)}))
    /\ res' = NoRes
    /\ facts' = NoFacts
    /\ UNCHANGED <<tx, fs, namespace, tags, chunks, fts, edits, rtext>>

NextConverge ==
    \/ WriteFile \/ ScanL \/ TxBegin \/ TxRead \/ TxDelete \/ TxInsert \/ TxMark
    \/ TxCommit

\* The insert step can be taken exactly when the run is at it.
TxInsertEnabled == tx.open /\ tx.phase = "insert"

\* Both commands are run whenever they have something to do, and a run
\* that was started goes on to its end: weak fairness of every step (that of
\* the insert step with its enabling condition written out).
SpecConverge ==
    /\ Init /\ [][NextConverge]_vars
    /\ WF_vars(ScanL) /\ WF_vars(TxBegin) /\ WF_vars(TxRead) /\ WF_vars(TxDelete)
    /\ ([]<>~TxInsertEnabled \/ []<><<TxInsert>>_vars)
    /\ WF_vars(TxMark) /\ WF_vars(TxCommit)

\* Every file of the tree is catalogued with its present digest and none is
\* pending.
Converged ==
    /\ \A p \in Paths : \E r \in FileRow(namespace, p) : r.sha = ScanSha(p)
    /\ PendingPaths(namespace) = {}

\* C27: once file contents stop changing, with every file readable and the
\* tagger succeeding, a scan followed by an index leaves no file pending,
\* also not a file for which the tagger emitted no retained tag; the pending
\* set then stays empty under further scans and index runs; and that state
\* is reached.
C27_Converges ==
    /\ [][(tx.open /\ ~tx'.open /\ hist # <<>> /\ Last(hist).op = "scan")
          => Converged']_vars
    /\ [][(Converged /\ fs' = fs) => Converged']_vars
    /\ <>[]Converged

\* A scan and then an index ran over the unchanged tree, nothing is pending,
\* and a file for which the tagger emitted nothing is indexed with no tag
\* and no chunk.
C27_Witness ==
    /\ Len(hist) >= 2 /\ Recent(2).op = "scan" /\ Recent(1).op = "index"
    /\ Recent(1).result = "ok"
    /\ Converged
    /\ \E r \in files :
          /\ r.path \in Recent(1).rebuilt /\ ~IsPending(r)
          /\ TagsOfFile(tags, r.id) = {} /\ ChunksOfFile(chunks, r.id) = {}

(***************************************************************************)
(* The resolver's and the ingester's extent of a symbol.                   *)
(***************************************************************************)
\* The symbol index stores with the chunk of a tag.
TagSymbol(t) == IF IsSome(t.scope) THEN Fqn(Unwrap(t.scope), t.name) ELSE t.name

\* The chunks index derived for a stored tag.
ChunksOfTag(t) ==
    {c \in chunks : c.file_id = t.file_id /\ c.begin_line = t.line
                     /\ c.symbol = Some(TagSymbol(t))}

\* The file of the tag was rebuilt by an index run that directly followed a
\* scan, and nothing was written since.
FreshlyIndexed(t) ==
    /\ Len(hist) >= 2 /\ Recent(2).op = "scan" /\ Recent(1).op = "index"
    /\ Recent(1).result = "ok"
    /\ RowOf(files, t.file_id).namespace = namespace
    /\ RowOf(files, t.file_id).path \in Recent(1).rebuilt

\* C28: for every stored tag without a declared end line, in a file unchanged
\* since it was indexed, the end line the resolver's fallback computes for
\* the tag equals the end_line of the chunk index derived for that tag.
C28_ExtentsAgree ==
    \A t \in tags :
        (t.end_line = None /\ FreshlyIndexed(t)) =>
            \A c \in ChunksOfTag(t) :
                LET e == approx_end_line(namespace, RowOf(files, t.file_id).path, t.line)
                IN e.ok /\ e.val = c.end_line

(***************************************************************************)
(* Scope-qualified symbols: a tree where two classes have a member of the  *)
(* same name.                                                              *)
(***************************************************************************)
InitScopes ==
    /\ fs \in {f \in [Paths -> {InitFile(c) : c \in {TextLf, TextBin, TextScopes}}] :
                  f["b.cpp"].bytes # TextScopes}
    /\ namespace = "n1"
    /\ files = {} /\ tags = {} /\ chunks = {} /\ fts = {}
    /\ clock = 1
    /\ edits = 0
    /\ hist = <<>>
    /\ res = NoRes
    /\ rtext = NoRead
    /\ facts = NoFacts
    /\ tx = NoTx

SpecScopes == InitScopes /\ [][NextResolve]_vars

\* The tags of the namespace whose scope::name is sym.
QualifiedMatches(ns, sym) ==
    {t \in tags : /\ RowOf(files, t.file_id).namespace = ns
                   /\ IsSome(t.scope) /\ Fqn(Unwrap(t.scope), t.name) = sym}

\* C29: when resolve is given a symbol S containing "::" and a tag of the
\* namespace has scope::name equal to S, the Target it returns has the
\* fully-qualified name S: never a tag that only shares the short name.
C29_QualifiedSymbolExact ==
    (/\ res.called /\ IsSome(res.query.symbol)
     /\ RFindColons(Unwrap(res.query.symbol)) > 0
     /\ QualifiedMatches(namespace, Unwrap(res.query.symbol)) # {}
     /\ res.out.kind = "target")
    => res.out.target.fqn = Some(Unwrap(res.query.symbol))

(***************************************************************************)
(* Several namespaces in one store.                                        *)
(***************************************************************************)
\* init::run --namespace: the state file names another namespace; the store
\* is opened and left as it is.
InitNamespace ==
    \E ns \in Namespaces \ {namespace} :
        /\ namespace' = ns
        /\ res' = NoRes
        /\ facts' = NoFacts
        /\ UNCHANGED <<tx, fs, files, tags, chunks, fts, clock, edits, hist, rtext>>

\* The tree changes once between the runs.
WriteOnce == edits = 0 /\ WriteFile

\* explain::run started with no range or with the range 2:3.
ResolveN == Resolve /\ res'.query.lines \in {None, Some(<<"2", ":", "3">>)}

NextNamespaces == WriteOnce \/ Scan \/ Index \/ InitNamespace \/ ResolveN \/ ExplainExit

SpecNamespaces == Init /\ [][NextNamespaces]_vars

\* The rows of the store that belong to a namespace other than ns.
OtherRows(fl, tg, cs, ns) ==
    [files |-> {r \in fl : r.namespace # ns},
     tags |-> {t \in tg : RowOf(fl, t.file_id).namespace # ns},
     chunks |-> {c \in cs : RowOf(fl, c.file_id).namespace # ns}]

\* The tags and chunks of the files of ns that are not pending.
SettledRows(fl, tg, cs, ns) ==
    [tags |-> {t \in tg : RowOf(fl, t.file_id).namespace = ns
                           /\ ~IsPending(RowOf(fl, t.file_id))},
     chunks |-> {c \in cs : RowOf(fl, c.file_id).namespace = ns
                             /\ ~IsPending(RowOf(fl, c.file_id))}]

\* The Target is built from rows of namespace ns: a file row of ns has its
\* path, and it is the synthesized range of that file or has the name, kind,
\* line, scope and signature of a tag of that file.
TargetFrom(ns, tg) ==
    \E r \in files :
        /\ r.namespace = ns /\ r.path = tg.path
        /\ \/ tg.name = <<"<range>">> /\ tg.file_id = r.id
           \/ \E t \in tags :
                 /\ t.file_id = r.id /\ t.name = tg.name /\ t.kind = tg.kind
                 /\ t.line = tg.begin_line /\ t.signature = tg.signature
                 /\ tg.fqn = (IF IsSome(t.scope) THEN Some(Fqn(Unwrap(t.scope), t.name))
                               ELSE None)
                 /\ IsSome(t.end_line) /\ Unwrap(t.end_line) > 0
                        => tg.end_line = Unwrap(t.end_line)

\* C30: a scan or index run for namespace N leaves every File, Tag and Chunk
\* row of another namespace as it was; an index run leaves the tags and
\* chunks of the files of N that are not pending as they were, whatever
\* records the tagger printed for their paths; and a Target that resolve
\* returns for N is built from rows of N, also when the same path or symbol
\* exists in another namespace.
C30_NamespaceIsolation ==
    /\ [][OtherRows(files', tags', chunks', namespace)
             = OtherRows(files, tags, chunks, namespace)]_vars
    /\ [][IndexStep => SettledRows(files, tags', chunks', namespace)
                         = SettledRows(files, tags, chunks, namespace)]_vars
    /\ [][(res'.called /\ res'.out.kind = "target")
             => TargetFrom(namespace, res'.out.target)]_vars

\* After an index run for the namespace, resolve returned a Target for a path
\* that another namespace catalogues too, with tags there of which none has
\* the Target's name.
C30_Witness ==
    /\ res.called /\ res.out.kind = "target"
    /\ hist # <<>> /\ Last(hist).op = "index" /\ Last(hist).ns = namespace
    /\ Last(hist).rebuilt # {}
    /\ \E r \in files :
          /\ r.namespace # namespace /\ r.path = res.out.target.path
          /\ TagsOfFile(tags, r.id) # {}
          /\ \A t \in TagsOfFile(tags, r.id) : t.name # res.out.target.name

=============================================================================
